---- MODULE Spec2Model ----
(***************************************************************************)
(* A model of the bkai EPUB reader: the chapter cursor of ReaderState      *)
(* (src/state/mod.rs) and the normalisation pipeline of EpubService        *)
(* (src/epub/service.rs).                                                  *)
(*                                                                         *)
(* Text is modelled as a sequence of one-character strings, so that trim,  *)
(* lower-casing, suffix tests and splitting are computed, not assumed.     *)
(* Option<T> is a record tagged "None" or "Some".                          *)
(***************************************************************************)
EXTENDS Integers, Sequences, FiniteSets, TLC

VARIABLES
    active_book,      \* ReaderState.active_book : Option<Book>
    current_chapter,  \* ReaderState.current_chapter : Option<usize>
    op,               \* the ReaderState method called last
    arg,              \* its argument (a book, an href), None without one
    ret,              \* its return value
    input,            \* the arguments of the pipeline function under check
    output            \* its result, NotRun before the call

vars == <<active_book, current_chapter, op, arg, ret, input, output>>

readerVars == <<active_book, current_chapter, op, arg, ret>>

pipeVars == <<input, output>>

----------------------------------------------------------------------------
(* Bounds of the model *)

MaxChapters == 3

MaxTocLabels == 2

MaxSpine == 3

MaxMeta == 3

MaxNav == 3

MaxNavDepth == 2

MaxBlocks == 3

MaxLines == 3

----------------------------------------------------------------------------
(* Option *)

None == [tag |-> "None"]

Some(v) == [tag |-> "Some", v |-> v]

IsSome(o) == o.tag = "Some"

NotRun == [tag |-> "NotRun"]

Returned(v) == [tag |-> "Returned", v |-> v]

HasReturned(o) == o.tag = "Returned"

----------------------------------------------------------------------------
(* Text: str / String as a sequence of characters *)

Whitespace == {" ", "\n", "\t", "\r"}

RECURSIVE TrimStart(_)
TrimStart(s) ==
    IF s = <<>> THEN <<>>
    ELSE IF Head(s) \in Whitespace THEN TrimStart(Tail(s))
    ELSE s

RECURSIVE TrimEnd(_)
TrimEnd(s) ==
    IF s = <<>> THEN <<>>
    ELSE IF s[Len(s)] \in Whitespace THEN TrimEnd(SubSeq(s, 1, Len(s) - 1))
    ELSE s

Trim(s) == TrimEnd(TrimStart(s))

AsciiUpper ==
    <<"A", "B", "C", "D", "E", "F", "G", "H", "I", "J", "K", "L", "M",
      "N", "O", "P", "Q", "R", "S", "T", "U", "V", "W", "X", "Y", "Z">>

AsciiLower ==
    <<"a", "b", "c", "d", "e", "f", "g", "h", "i", "j", "k", "l", "m",
      "n", "o", "p", "q", "r", "s", "t", "u", "v", "w", "x", "y", "z">>

AsciiLowerOf ==
    [c \in {AsciiUpper[i] : i \in 1..Len(AsciiUpper)} |->
        AsciiLower[CHOOSE i \in 1..Len(AsciiUpper) : AsciiUpper[i] = c]]

\* u8::to_ascii_lowercase: only 'A'..'Z' change
LowerChar(c) == IF c \in DOMAIN AsciiLowerOf THEN AsciiLowerOf[c] ELSE c

ToAsciiLowercase(s) == [i \in 1..Len(s) |-> LowerChar(s[i])]

EqIgnoreAsciiCase(a, b) == ToAsciiLowercase(a) = ToAsciiLowercase(b)

StartsWith(s, p) == Len(p) <= Len(s) /\ SubSeq(s, 1, Len(p)) = p

EndsWith(s, p) == Len(p) <= Len(s) /\ SubSeq(s, Len(s) - Len(p) + 1, Len(s)) = p

Contains(s, p) == \E i \in 0..(Len(s) - Len(p)) : SubSeq(s, i + 1, i + Len(p)) = p

\* the pieces of s between occurrences of the character c (str::split)
RECURSIVE SplitOn(_, _)
SplitOn(s, c) ==
    IF \A i \in 1..Len(s) : s[i] # c THEN <<s>>
    ELSE LET i == CHOOSE k \in 1..Len(s) : s[k] = c /\ \A j \in 1..(k - 1) : s[j] # c
         IN  <<SubSeq(s, 1, i - 1)>> \o SplitOn(SubSeq(s, i + 1, Len(s)), c)

\* str::lines: split at "\n", a "\r" before it dropped, no last empty line
Lines(s) ==
    LET parts == SplitOn(s, "\n")
        n     == Len(parts)
        strip(l) == IF l # <<>> /\ l[Len(l)] = "\r" THEN SubSeq(l, 1, Len(l) - 1) ELSE l
        kept  == IF parts[n] = <<>> THEN n - 1 ELSE n
    IN  [i \in 1..kept |-> IF i < n THEN strip(parts[i]) ELSE parts[i]]

\* slice::join
RECURSIVE Join(_, _)
Join(ss, sep) ==
    IF ss = <<>> THEN <<>>
    ELSE IF Len(ss) = 1 THEN ss[1]
    ELSE ss[1] \o sep \o Join(Tail(ss), sep)

----------------------------------------------------------------------------
(* Paths: std::path::Path compares and matches by components *)

RootDir == <<"/">>

CurDir == <<".">>

\* Path::components on Unix: a leading "/" is the root, empty pieces (repeated
\* or trailing separators) and "." pieces vanish, except a "." that starts the path
Components(path) ==
    LET segs   == SplitOn(path, "/")
        rooted == path # <<>> /\ path[1] = "/"
        keep   == SelectSeq([i \in 1..Len(segs) |-> <<i, segs[i]>>],
                            LAMBDA e : /\ e[2] # <<>>
                                       /\ (e[2] = CurDir => (e[1] = 1 /\ ~rooted)))
    IN  (IF rooted THEN <<RootDir>> ELSE <<>>) \o [i \in 1..Len(keep) |-> keep[i][2]]

\* PathBuf == PathBuf, the equality of HashMap<PathBuf, _> keys
PathEq(a, b) == Components(a) = Components(b)

\* Path::ends_with(child): the components of child end those of path
PathEndsWith(path, child) ==
    LET pc == Components(path)
        cc == Components(child)
    IN  Len(cc) <= Len(pc) /\ SubSeq(pc, Len(pc) - Len(cc) + 1, Len(pc)) = cc

----------------------------------------------------------------------------
(* The document model (src/epub/model.rs) *)

Chapter(id, title, href, blocks, plain_text) ==
    [id |-> id, title |-> title, href |-> href, blocks |-> blocks, plain_text |-> plain_text]

TextSpan(text, bold, italic) == [text |-> text, bold |-> bold, italic |-> italic]

TextSpanPlain(text) == TextSpan(text, FALSE, FALSE)

Heading(level, spans) == [kind |-> "Heading", level |-> level, spans |-> spans]

Paragraph(spans) == [kind |-> "Paragraph", spans |-> spans]

BookMetadataDefault ==
    [identifier |-> None, title |-> None, authors |-> <<>>, language |-> None,
     description |-> None]

BookContentDefault ==
    [manifest |-> <<>>, spine |-> <<>>, toc |-> <<>>, chapters |-> <<>>]

UnknownId == <<"u", "n", "k", "n", "o", "w", "n">>

BookEmpty ==
    [id |-> UnknownId, metadata |-> BookMetadataDefault, content |-> BookContentDefault,
     source_path |-> <<>>]

----------------------------------------------------------------------------
(* ReaderState (src/state/mod.rs) *)

chapter_count ==
    IF IsSome(active_book) THEN Len(active_book.v.content.chapters) ELSE 0

current_chapter_fn ==
    IF ~IsSome(current_chapter) \/ ~IsSome(active_book) THEN None
    ELSE IF current_chapter.v + 1 <= Len(active_book.v.content.chapters)
         THEN Some(<<active_book.v.content.chapters[current_chapter.v + 1], current_chapter.v>>)
         ELSE None

current_chapter_href ==
    IF ~IsSome(current_chapter) \/ ~IsSome(active_book) THEN None
    ELSE IF current_chapter.v + 1 <= Len(active_book.v.content.chapters)
         THEN Some(active_book.v.content.chapters[current_chapter.v + 1].href)
         ELSE None

\* fault: the cursor is set to 0 without looking at the chapters
InitialCursorAlwaysFirst(book) == Some(0)

\* the cursor installed by set_active_book
InitialCursor(book) ==
    IF book.content.chapters = <<>> THEN None ELSE Some(0)

set_active_book(book) ==
    /\ current_chapter' = InitialCursor(book)
    /\ active_book' = Some(book)
    /\ op' = "set_active_book"
    /\ arg' = Some(book)
    /\ ret' = TRUE          \* set_active_book returns nothing
    /\ UNCHANGED pipeVars

\* fault: the bound test is <= instead of <
NextResultOffByOne(cur, total) ==
    IF ~IsSome(cur) THEN <<FALSE, cur>>
    ELSE IF cur.v + 1 <= total THEN <<TRUE, Some(cur.v + 1)>>
    ELSE <<FALSE, cur>>

\* the outcome of next_chapter: <<return value, new cursor>>
NextResult(cur, total) ==
    IF ~IsSome(cur) THEN <<FALSE, cur>>
    ELSE IF cur.v + 1 < total THEN <<TRUE, Some(cur.v + 1)>>
    ELSE <<FALSE, cur>>

next_chapter ==
    /\ op' = "next_chapter"
    /\ arg' = None
    /\ ret' = NextResult(current_chapter, chapter_count)[1]
    /\ current_chapter' = NextResult(current_chapter, chapter_count)[2]
    /\ UNCHANGED active_book
    /\ UNCHANGED pipeVars

\* fault: the floor test is missing, the cursor steps back from 0
PreviousResultNoFloor(cur) ==
    IF ~IsSome(cur) THEN <<FALSE, cur>> ELSE <<TRUE, Some(cur.v - 1)>>

\* the outcome of previous_chapter: <<return value, new cursor>>
PreviousResult(cur) ==
    IF ~IsSome(cur) THEN <<FALSE, cur>>
    ELSE IF cur.v > 0 THEN <<TRUE, Some(cur.v - 1)>>
    ELSE <<FALSE, cur>>

previous_chapter ==
    /\ op' = "previous_chapter"
    /\ arg' = None
    /\ ret' = PreviousResult(current_chapter)[1]
    /\ current_chapter' = PreviousResult(current_chapter)[2]
    /\ UNCHANGED active_book
    /\ UNCHANGED pipeVars

\* fault: the last match is taken (rfind) instead of the first
FindHrefLast(chapters, href) ==
    LET hits == {i \in 1..Len(chapters) : chapters[i].href = href}
    IN  IF hits = {} THEN None
        ELSE Some((CHOOSE i \in hits : \A j \in hits : i >= j) - 1)

\* chapters.iter().enumerate().find(|(_, chapter)| chapter.href == href), 0-based
FindHref(chapters, href) ==
    LET hits == {i \in 1..Len(chapters) : chapters[i].href = href}
    IN  IF hits = {} THEN None
        ELSE Some((CHOOSE i \in hits : \A j \in hits : i <= j) - 1)

\* fault: a jump that finds nothing rewinds the cursor
JumpResultResetOnMiss(book, cur, href) ==
    IF ~IsSome(book) THEN <<FALSE, cur>>
    ELSE LET hits == {i \in 1..Len(book.v.content.chapters) :
                         book.v.content.chapters[i].href = href}
         IN  IF hits # {} THEN <<TRUE, Some((CHOOSE i \in hits : \A j \in hits : i <= j) - 1)>>
             ELSE <<FALSE, IF IsSome(cur) THEN Some(0) ELSE cur>>

\* the outcome of jump_to_chapter_href: <<return value, new cursor>>
JumpResult(book, cur, href) ==
    IF ~IsSome(book) THEN <<FALSE, cur>>
    ELSE LET found == FindHref(book.v.content.chapters, href)
         IN  IF IsSome(found) THEN <<TRUE, Some(found.v)>> ELSE <<FALSE, cur>>

jump_to_chapter_href(href) ==
    /\ op' = "jump_to_chapter_href"
    /\ arg' = Some(href)
    /\ ret' = JumpResult(active_book, current_chapter, href)[1]
    /\ current_chapter' = JumpResult(active_book, current_chapter, href)[2]
    /\ UNCHANGED active_book
    /\ UNCHANGED pipeVars

----------------------------------------------------------------------------
(* The books and hrefs the reader is driven with *)

HrefA == <<"a", ".", "x">>

HrefB == <<"b", ".", "x">>

HrefMissing == <<"m", ".", "x">>

\* chapters as collect_chapters builds them; c2 shares its href with c0
ReaderChapters ==
    { Chapter(<<"c", "0">>, Some(<<"A">>), HrefA, <<>>, <<"A">>),
      Chapter(<<"c", "1">>, None, HrefB, <<>>, <<>>),
      Chapter(<<"c", "2">>, Some(<<"A">>), HrefA, <<>>, <<"A">>) }

SeqsUpTo(S, n) == UNION {[1..k -> S] : k \in 0..n}

ReaderBooks ==
    {[BookEmpty EXCEPT !.content.chapters = cs] : cs \in SeqsUpTo(ReaderChapters, MaxChapters)}

ReaderHrefs == {HrefA, HrefB, HrefMissing}

----------------------------------------------------------------------------
(* The reader state machine *)

Init ==
    /\ active_book = None
    /\ current_chapter = None
    /\ op = "default"
    /\ arg = None
    /\ ret = FALSE
    /\ input = None
    /\ output = NotRun

Next ==
    \/ \E book \in ReaderBooks : set_active_book(book)
    \/ next_chapter
    \/ previous_chapter
    \/ \E href \in ReaderHrefs : jump_to_chapter_href(href)

Spec == Init /\ [][Next]_vars

----------------------------------------------------------------------------
(* Claims about the chapter cursor, checked under Spec *)

Chapters == IF IsSome(active_book) THEN active_book.v.content.chapters ELSE <<>>

C1_Step ==
    /\ (op' = "next_chapter" /\ Len(Chapters) >= 1 /\ IsSome(current_chapter)) =>
          IF current_chapter.v = Len(Chapters) - 1
          THEN ret' = FALSE /\ current_chapter' = current_chapter
          ELSE ret' = TRUE /\ current_chapter' = Some(current_chapter.v + 1)
    /\ (op' = "previous_chapter" /\ Len(Chapters) >= 1 /\ IsSome(current_chapter)) =>
          IF current_chapter.v = 0
          THEN ret' = FALSE /\ current_chapter' = current_chapter
          ELSE ret' = TRUE /\ current_chapter' = Some(current_chapter.v - 1)
    /\ (op' \in {"next_chapter", "previous_chapter"} /\ current_chapter = None) =>
          /\ ret' = FALSE
          /\ current_chapter' = current_chapter
          /\ active_book' = active_book

\* C1: with an active book of N >= 1 chapters, next_chapter at index N-1 and
\* previous_chapter at index 0 return false and leave the cursor alone; at every
\* other index they return true and move the cursor by exactly +1 / -1; with no
\* cursor both return false and change nothing.
C1_NavigationBounds == [][C1_Step]_vars

\* next_chapter has just been refused at the last chapter of a 3-chapter book
C1_Witness ==
    /\ op = "next_chapter"
    /\ ret = FALSE
    /\ Len(Chapters) = 3
    /\ current_chapter = Some(2)

C2_Step ==
    (op' = "jump_to_chapter_href") =>
        LET h == arg'.v
            matches == {i \in 1..Len(Chapters) : Chapters[i].href = h}
        IN  IF IsSome(active_book) /\ matches # {}
            THEN /\ ret' = TRUE
                 /\ \E i \in matches :
                       /\ \A j \in 1..(i - 1) : Chapters[j].href # h
                       /\ current_chapter' = Some(i - 1)
            ELSE /\ ret' = FALSE
                 /\ current_chapter' = current_chapter

\* C2: jump_to_chapter_href(h) moves the cursor to the lowest index of a chapter
\* whose href equals h and returns true; with no such chapter, or no active
\* book, it returns false and leaves the cursor unchanged.
C2_JumpToHref == [][C2_Step]_vars

\* a jump has landed on the first of two chapters that share the href
C2_Witness ==
    /\ op = "jump_to_chapter_href"
    /\ ret = TRUE
    /\ arg = Some(HrefA)
    /\ Len(Chapters) = 3
    /\ Chapters[1].href = HrefB
    /\ Chapters[2].href = HrefA
    /\ Chapters[3].href = HrefA
    /\ current_chapter = Some(1)

C3_Step ==
    (op' = "set_active_book") =>
        LET book == arg'.v
        IN  /\ active_book' = Some(book)
            /\ IF Len(book.content.chapters) >= 1
               THEN /\ current_chapter' = Some(0)
                    /\ current_chapter_fn' = Some(<<book.content.chapters[1], 0>>)
               ELSE /\ current_chapter' = None
                    /\ current_chapter_fn' = None

\* C3: set_active_book(book) installs the book and resets the cursor whatever it
\* was: to 0 when the book has a chapter, to None when it has none;
\* current_chapter() then returns the first chapter, or nothing.
C3_SetActiveBook == [][C3_Step]_vars

\* a chapterless book has been installed: the cursor is None
C3_Witness ==
    /\ op = "set_active_book"
    /\ IsSome(active_book)
    /\ Chapters = <<>>
    /\ current_chapter = None

C4_Step ==
    (op' \in {"next_chapter", "previous_chapter", "jump_to_chapter_href"}) =>
        /\ active_book' = active_book
        /\ (current_chapter' # current_chapter => ret' = TRUE)

\* C4: next_chapter, previous_chapter and jump_to_chapter_href never change the
\* active book, whether they succeed or fail; only the cursor may change, and
\* only when the operation returns true.
C4_NavigationFrame == [][C4_Step]_vars

\* a jump to an unknown href has failed in the middle of a book
C4_Witness ==
    /\ op = "jump_to_chapter_href"
    /\ ret = FALSE
    /\ arg = Some(HrefMissing)
    /\ Len(Chapters) = 3
    /\ current_chapter = Some(1)

----------------------------------------------------------------------------
(* Chapter titles (src/epub/service.rs): derive_chapter_title and its helpers.  *)
(* toc_labels : HashMap<PathBuf, String> is a set of [key, label] entries  *)
(* whose keys are pairwise different paths.                                *)

spans_to_text(spans) ==
    Join(SelectSeq([i \in 1..Len(spans) |-> Trim(spans[i].text)], LAMBDA t : t # <<>>),
         <<" ">>)

\* toc_labels.get(resource_path)
TocLabelsGet(toc_labels, resource_path) ==
    LET hit == {e \in toc_labels : PathEq(e.key, resource_path)}
    IN  IF hit = {} THEN None ELSE Some((CHOOSE e \in hit : TRUE).label)

\* fault: the suffix test is on the text (str::ends_with), not on path components
MatchTocLabelByText(toc_labels, resource_path) ==
    LET hit == {e \in toc_labels : EndsWith(resource_path, e.key)}
    IN  IF hit = {} THEN {None} ELSE {Some(e.label) : e \in hit}

\* match_toc_label: the map is walked in the hash map's order, which is not
\* fixed, so every entry that matches may be the one returned
match_toc_label(toc_labels, resource_path) ==
    LET hit == {e \in toc_labels : PathEndsWith(resource_path, e.key)}
    IN  IF hit = {} THEN {None} ELSE {Some(e.label) : e \in hit}

\* the first block whose text is not blank, as its trimmed text
FirstBlockText(blocks) ==
    LET text(i) == Trim(spans_to_text(blocks[i].spans))
        hit     == {i \in 1..Len(blocks) : text(i) # <<>>}
    IN  IF hit = {} THEN None
        ELSE Some(text(CHOOSE i \in hit : \A j \in hit : i <= j))

\* plain_text.lines().find(|line| !line.trim().is_empty()), trimmed
FirstTextLine(plain_text) ==
    LET lines == Lines(plain_text)
        hit   == {i \in 1..Len(lines) : Trim(lines[i]) # <<>>}
    IN  IF hit = {} THEN None
        ELSE Some(Trim(lines[CHOOSE i \in hit : \A j \in hit : i <= j]))

\* fault: the text of the blocks is tried before the TOC labels
DeriveChapterTitleTextFirst(toc_labels, resource_path, blocks, plain_text, fallback_id) ==
    IF IsSome(FirstBlockText(blocks)) THEN {FirstBlockText(blocks)}
    ELSE IF IsSome(TocLabelsGet(toc_labels, resource_path))
    THEN {TocLabelsGet(toc_labels, resource_path)}
    ELSE IF match_toc_label(toc_labels, resource_path) # {None}
    THEN match_toc_label(toc_labels, resource_path)
    ELSE IF IsSome(FirstTextLine(plain_text)) THEN {FirstTextLine(plain_text)}
    ELSE IF fallback_id # <<>> THEN {Some(fallback_id)}
    ELSE {None}

\* the titles derive_chapter_title may return (one, unless several keys end the path)
derive_chapter_title(toc_labels, resource_path, blocks, plain_text, fallback_id) ==
    IF IsSome(TocLabelsGet(toc_labels, resource_path))
    THEN {TocLabelsGet(toc_labels, resource_path)}
    ELSE IF match_toc_label(toc_labels, resource_path) # {None}
    THEN match_toc_label(toc_labels, resource_path)
    ELSE IF IsSome(FirstBlockText(blocks)) THEN {FirstBlockText(blocks)}
    ELSE IF IsSome(FirstTextLine(plain_text)) THEN {FirstTextLine(plain_text)}
    ELSE IF fallback_id # <<>> THEN {Some(fallback_id)}
    ELSE {None}

(* The arguments derive_chapter_title is applied to *)

PathOA == <<"o", "/", "a">>

PathOBA == <<"o", "/", "b", "a">>

PathA == <<"a">>

TitlePaths == {PathOA, PathOBA, PathA}

\* keys of the label map: "a", "o/a", "o//a" (the path o/a spelt differently),
\* "ba", and "" (what a target "#frag" is stripped to)
TitleKeys == {<<"a">>, <<"o", "/", "a">>, <<"o", "/", "/", "a">>, <<"b", "a">>, <<>>}

\* every key is given a label that names it
TitleEntry(key) == [key |-> key, label |-> <<"L", ":">> \o key]

TitleTocLabels ==
    {m \in SUBSET {TitleEntry(k) : k \in TitleKeys} :
        /\ Cardinality(m) <= MaxTocLabels
        /\ \A e1, e2 \in m : PathEq(e1.key, e2.key) => e1 = e2}

TitleBlocks ==
    { <<>>,
      <<Paragraph(<<TextSpanPlain(<<" ", " ">>)>>)>>,
      <<Paragraph(<<TextSpanPlain(<<" ">>)>>),
        Heading(2, <<TextSpanPlain(<<" ", "T", " ">>), TextSpan(<<"x">>, TRUE, FALSE)>>),
        Paragraph(<<TextSpanPlain(<<"p">>)>>)>>,
      <<Paragraph(<<TextSpanPlain(<<"p">>)>>)>> }

TitlePlainTexts == {<<>>, <<" ", "\n">>, <<"\n", " ", "q", " ", "\n", "r">>}

TitleIds == {<<>>, <<"i", "d">>}

TitleInputs ==
    [fn : {"derive_chapter_title"}, toc_labels : TitleTocLabels, resource_path : TitlePaths,
     blocks : TitleBlocks, plain_text : TitlePlainTexts, fallback_id : TitleIds]

ReaderIdle ==
    /\ active_book = None
    /\ current_chapter = None
    /\ op = "default"
    /\ arg = None
    /\ ret = FALSE

InitTitle ==
    /\ ReaderIdle
    /\ input \in TitleInputs
    /\ output = NotRun

DeriveChapterTitle ==
    /\ output = NotRun
    /\ input.fn = "derive_chapter_title"
    /\ \E title \in derive_chapter_title(input.toc_labels, input.resource_path,
                                         input.blocks, input.plain_text, input.fallback_id) :
          output' = Returned(title)
    /\ UNCHANGED input
    /\ UNCHANGED readerVars

NextTitle == DeriveChapterTitle

SpecTitle == InitTitle /\ [][NextTitle]_vars

(* Claims about chapter titles, checked under SpecTitle *)

TitleDerived == HasReturned(output) /\ input.fn = "derive_chapter_title"

C5_ExactEntries == {e \in input.toc_labels : PathEq(e.key, input.resource_path)}

C5_SuffixEntries == {e \in input.toc_labels : PathEndsWith(input.resource_path, e.key)}

C5_BlockText(i) == Trim(spans_to_text(input.blocks[i].spans))

C5_TextBlocks == {i \in 1..Len(input.blocks) : C5_BlockText(i) # <<>>}

C5_TextLines ==
    {i \in 1..Len(Lines(input.plain_text)) : Trim(Lines(input.plain_text)[i]) # <<>>}

\* C5: the title is decided by the first step that applies: (1) the label under
\* the manifest path itself, (2) a label whose key is a path suffix of it, (3) the
\* trimmed text of the first non-blank block, (4) the first non-blank line of
\* the plain text, trimmed, (5) the manifest id if not empty, (6) None.
C5_TitleFallbackChain ==
    TitleDerived =>
        IF C5_ExactEntries # {}
        THEN \A e \in C5_ExactEntries : output.v = Some(e.label)
        ELSE IF C5_SuffixEntries # {}
        THEN \E e \in C5_SuffixEntries : output.v = Some(e.label)
        ELSE IF C5_TextBlocks # {}
        THEN \E i \in C5_TextBlocks :
                /\ \A j \in C5_TextBlocks : i <= j
                /\ output.v = Some(C5_BlockText(i))
        ELSE IF C5_TextLines # {}
        THEN \E i \in C5_TextLines :
                /\ \A j \in C5_TextLines : i <= j
                /\ output.v = Some(Trim(Lines(input.plain_text)[i]))
        ELSE IF input.fallback_id # <<>>
        THEN output.v = Some(input.fallback_id)
        ELSE output.v = None

\* the exact TOC label has won over a chapter whose blocks hold other text
C5_Witness ==
    /\ TitleDerived
    /\ input.resource_path = PathOA
    /\ TitleEntry(PathOA) \in input.toc_labels
    /\ C5_TextBlocks # {}
    /\ output.v = Some(TitleEntry(PathOA).label)

\* C12: when no key equals the manifest path but some key is a path suffix of
\* it, the title is the label under a key that is a path suffix of the manifest
\* path, whatever the blocks, the plain text and the id hold; and a label whose
\* key is not a path suffix of the manifest path is never the title.
C12_SuffixMatching ==
    TitleDerived =>
        /\ (C5_ExactEntries = {} /\ C5_SuffixEntries # {}) =>
              \E e \in input.toc_labels :
                 /\ PathEndsWith(input.resource_path, e.key)
                 /\ output.v = Some(e.label)
        /\ \A e \in input.toc_labels :
              output.v = Some(e.label) => PathEndsWith(input.resource_path, e.key)

\* the path o/ba has no key of its own; the key ba ends it as a path, the key a
\* only as text; the chapter has block text, plain text and an id, and the
\* title is the label under ba
C12_Witness ==
    /\ TitleDerived
    /\ input.resource_path = PathOBA
    /\ input.toc_labels = {TitleEntry(<<"a">>), TitleEntry(<<"b", "a">>)}
    /\ C5_TextBlocks # {}
    /\ C5_TextLines # {}
    /\ input.fallback_id # <<>>
    /\ output.v = Some(TitleEntry(<<"b", "a">>).label)

----------------------------------------------------------------------------
(* Chapters (src/epub/service.rs): collect_chapters.  The package reader's      *)
(* doc holds resources (id -> [path, mime]), the spine and, per resource,   *)
(* what get_resource_str returns: None, or the markup, kept as what the     *)
(* two renderers make of it: html_to_blocks and html_to_plain_text.         *)

\* fault: blank blocks are joined in like the others
BlocksToPlainTextKeepBlank(blocks) ==
    Join([i \in 1..Len(blocks) |-> spans_to_text(blocks[i].spans)], <<"\n", "\n">>)

blocks_to_plain_text(blocks) ==
    Join(SelectSeq([i \in 1..Len(blocks) |-> spans_to_text(blocks[i].spans)],
                   LAMBDA t : Trim(t) # <<>>),
         <<"\n", "\n">>)

html_to_blocks(html) == html.blocks

html_to_plain_text(html) == Trim(html.text)

\* mime_lower.contains("html") || mime_lower.contains("xhtml")
IsHtmlMime(mime) ==
    LET mime_lower == ToAsciiLowercase(mime)
    IN  Contains(mime_lower, <<"h", "t", "m", "l">>)
            \/ Contains(mime_lower, <<"x", "h", "t", "m", "l">>)

\* the chapters one spine item may become: none when it is skipped
ChaptersOfItem(doc, idref, toc_labels) ==
    IF idref \notin DOMAIN doc.resources THEN {<<>>}
    ELSE IF ~IsHtmlMime(doc.resources[idref].mime) THEN {<<>>}
    ELSE IF ~IsSome(doc.fragments[idref]) THEN {<<>>}
    ELSE LET resource   == doc.resources[idref]
             html       == doc.fragments[idref].v
             blocks     == html_to_blocks(html)
             plain_text == IF blocks = <<>> THEN html_to_plain_text(html)
                           ELSE blocks_to_plain_text(blocks)
         IN  { <<Chapter(idref, title, resource.path, blocks, plain_text)>> :
                  title \in derive_chapter_title(toc_labels, resource.path, blocks,
                                                 plain_text, idref) }

\* fault: a chapter without blocks is dropped
CollectChaptersDropEmpty(doc, spine_items, toc_labels) ==
    LET RECURSIVE walk(_)
        walk(items) ==
            IF items = <<>> THEN {<<>>}
            ELSE { SelectSeq(first, LAMBDA c : c.blocks # <<>>) \o rest :
                      first \in ChaptersOfItem(doc, Head(items), toc_labels),
                      rest \in walk(Tail(items)) }
    IN  walk(spine_items)

\* the chapter lists collect_chapters may return
collect_chapters(doc, spine_items, toc_labels) ==
    LET RECURSIVE walk(_)
        walk(items) ==
            IF items = <<>> THEN {<<>>}
            ELSE { first \o rest :
                      first \in ChaptersOfItem(doc, Head(items), toc_labels),
                      rest \in walk(Tail(items)) }
    IN  walk(spine_items)

(* The packages collect_chapters is applied to *)

IdR1 == <<"r", "1">>

IdR2 == <<"r", "2">>

IdDangling == <<"x">>

MimeHtml == <<"t", "/", "h", "t", "m", "l">>

MimeXhtmlUpper == <<"A", "/", "X", "H", "T", "M", "L", "+", "x">>

MimeCss == <<"t", "/", "c", "s", "s">>

MimeHtm == <<"h", "t", "m">>

ChapterResources ==
    { (IdR1 :> [path |-> PathOA, mime |-> m1]) @@ (IdR2 :> [path |-> PathOBA, mime |-> m2]) :
         m1 \in {MimeHtml, MimeXhtmlUpper, MimeCss, MimeHtm}, m2 \in {MimeHtml, MimeCss} }

\* markup with no text at all, markup the block parser reads nothing from, and
\* markup with a heading and a paragraph
HtmlBlank == [blocks |-> <<>>, text |-> <<>>]

HtmlTextOnly == [blocks |-> <<>>, text |-> <<" ", "w", "\n">>]

HtmlBlocks ==
    [blocks |-> <<Heading(1, <<TextSpanPlain(<<"T">>)>>), Paragraph(<<TextSpanPlain(<<"p">>)>>)>>,
     text |-> <<"T", "\n", "p">>]

ChapterFragments ==
    { (IdR1 :> f1) @@ (IdR2 :> f2) :
         f1 \in {None, Some(HtmlBlank), Some(HtmlBlocks)},
         f2 \in {None, Some(HtmlTextOnly), Some(HtmlBlocks)} }

ChapterSpines == SeqsUpTo({IdR1, IdR2, IdDangling}, MaxSpine)

ChapterTocLabels == {TitleEntry(<<"a">>)}

ChapterInputs ==
    [fn : {"collect_chapters"}, resources : ChapterResources, fragments : ChapterFragments,
     spine : ChapterSpines, toc_labels : {ChapterTocLabels}]

InitChapters ==
    /\ ReaderIdle
    /\ input \in ChapterInputs
    /\ output = NotRun

CollectChapters ==
    /\ output = NotRun
    /\ input.fn = "collect_chapters"
    /\ \E chapters \in collect_chapters(input, input.spine, input.toc_labels) :
          output' = Returned(chapters)
    /\ UNCHANGED input
    /\ UNCHANGED readerVars

NextChapters == CollectChapters

SpecChapters == InitChapters /\ [][NextChapters]_vars

(* Claims about the chapter list, checked under SpecChapters *)

ChaptersCollected == HasReturned(output) /\ input.fn = "collect_chapters"

\* the three tests of C6 on a reading-order id
C6_Kept(id) ==
    /\ id \in DOMAIN input.resources
    /\ \E i \in 1..(Len(input.resources[id].mime) - 3) :
          \A k \in 1..4 :
             LowerChar(input.resources[id].mime[i + k - 1]) = <<"h", "t", "m", "l">>[k]
    /\ input.fragments[id] # None

\* C6: the chapter ids are exactly the reading-order ids, in declared order, that
\* are in the manifest, have a media type containing "html" in any case, and
\* whose fragment text is available; nothing else removes a chapter.
C6_ChapterOrder ==
    ChaptersCollected =>
        [i \in 1..Len(output.v) |-> output.v[i].id] = SelectSeq(input.spine, C6_Kept)

\* a dangling id and a stylesheet were skipped, and a chapter with no block and
\* no text was kept
C6_Witness ==
    /\ ChaptersCollected
    /\ input.spine = <<IdDangling, IdR2, IdR1>>
    /\ input.resources[IdR2].mime = MimeCss
    /\ input.resources[IdR1].mime = MimeXhtmlUpper
    /\ Len(output.v) = 1
    /\ output.v[1].id = IdR1
    /\ output.v[1].blocks = <<>>
    /\ output.v[1].plain_text = <<>>

----------------------------------------------------------------------------
(* Table of contents (src/epub/service.rs): build_toc_label_map, collect_nav_labels,   *)
(* normalize_nav_path and build_toc_entries.  A NavPoint is a record       *)
(* [label, content, children]; content is the target path, which may      *)
(* carry a "#fragment".                                                    *)

NavPoint(label, content, children) ==
    [label |-> label, content |-> content, children |-> children]

TocEntry(label, href, children) ==
    [label |-> label, href |-> href, children |-> children]

\* fault: the fragment is kept
NormalizeNavPathKeepFragment(path) == path

\* raw.split_once('#'): the text before the first '#', or the whole path
normalize_nav_path(path) ==
    IF \E i \in 1..Len(path) : path[i] = "#" THEN SplitOn(path, "#")[1] ELSE path

\* fault: HashMap::insert, the last label wins
InsertLabelOverwrite(labels, key, label) ==
    {e \in labels : ~PathEq(e.key, key)} \cup {[key |-> key, label |-> label]}

\* labels.entry(key).or_insert_with(|| label)
InsertLabel(labels, key, label) ==
    IF \E e \in labels : PathEq(e.key, key) THEN labels
    ELSE labels \cup {[key |-> key, label |-> label]}

RECURSIVE collect_nav_labels(_, _)
RECURSIVE CollectNavLabelsOfAll(_, _)
\* for nav_point in points { collect_nav_labels(nav_point, labels) }
CollectNavLabelsOfAll(points, labels) ==
    IF points = <<>> THEN labels
    ELSE CollectNavLabelsOfAll(Tail(points), collect_nav_labels(Head(points), labels))

collect_nav_labels(nav_point, labels) ==
    CollectNavLabelsOfAll(
        nav_point.children,
        InsertLabel(labels, normalize_nav_path(nav_point.content), nav_point.label))

build_toc_label_map(nav) == CollectNavLabelsOfAll(nav, {})

RECURSIVE build_toc_entries(_)
build_toc_entries(nav) ==
    [i \in 1..Len(nav) |->
        TocEntry(nav[i].label, normalize_nav_path(nav[i].content),
                 build_toc_entries(nav[i].children))]

(* The navigation trees: every forest of at most MaxNav nodes and depth at  *)
(* most MaxNavDepth, each node labelled by its place in document order      *)

NavContents ==
    { <<"a">>, <<"a", "#", "s">>, <<"a", "/">>, <<"b", "#", "s", "#", "t">>, <<"#", "f">> }

NavLabel(i) == <<"n", <<"1", "2", "3", "4", "5", "6", "7", "8", "9">>[i]>>

\* the depths of the nodes of a forest, in document order
NavShapes(n) ==
    {d \in [1..n -> 0..MaxNavDepth] :
        /\ n >= 1 => d[1] = 0
        /\ \A i \in 1..(n - 1) : d[i + 1] <= d[i] + 1}

\* the forest of the nodes (each [depth, point]) listed in document order
RECURSIVE NavForest(_, _)
NavForest(nodes, depth) ==
    IF nodes = <<>> THEN <<>>
    ELSE LET later == {i \in 2..Len(nodes) : nodes[i].depth = depth}
             stop  == IF later = {} THEN Len(nodes) + 1
                      ELSE CHOOSE i \in later : \A j \in later : i <= j
             head  == nodes[1].point
         IN  <<NavPoint(head.label, head.content,
                        NavForest(SubSeq(nodes, 2, stop - 1), depth + 1))>>
                 \o NavForest(SubSeq(nodes, stop, Len(nodes)), depth)

NavTrees ==
    UNION { { NavForest([i \in 1..n |->
                            [depth |-> d[i], point |-> NavPoint(NavLabel(i), c[i], <<>>)]], 0) :
                 d \in NavShapes(n), c \in [1..n -> NavContents] } : n \in 0..MaxNav }

TocInputs == [fn : {"build_toc_label_map", "build_toc_entries"}, nav : NavTrees]

InitToc ==
    /\ ReaderIdle
    /\ input \in TocInputs
    /\ output = NotRun

BuildTocLabelMap ==
    /\ output = NotRun
    /\ input.fn = "build_toc_label_map"
    /\ output' = Returned(build_toc_label_map(input.nav))
    /\ UNCHANGED input
    /\ UNCHANGED readerVars

BuildTocEntries ==
    /\ output = NotRun
    /\ input.fn = "build_toc_entries"
    /\ output' = Returned(build_toc_entries(input.nav))
    /\ UNCHANGED input
    /\ UNCHANGED readerVars

NextToc == BuildTocLabelMap \/ BuildTocEntries

SpecToc == InitToc /\ [][NextToc]_vars

(* Claims about the table of contents, checked under SpecToc *)

LabelMapBuilt == HasReturned(output) /\ input.fn = "build_toc_label_map"

\* the nodes of a navigation tree in depth-first pre-order
RECURSIVE PreOrder(_)
PreOrder(nav) ==
    IF nav = <<>> THEN <<>>
    ELSE <<Head(nav)>> \o PreOrder(Head(nav).children) \o PreOrder(Tail(nav))

\* key is target without its fragment: no '#' in it, and the target is the key,
\* or the key followed by '#' and anything
C10_IsStripped(key, target) ==
    /\ \A i \in 1..Len(key) : key[i] # "#"
    /\ \/ target = key
       \/ /\ Len(target) > Len(key)
          /\ SubSeq(target, 1, Len(key)) = key
          /\ target[Len(key) + 1] = "#"

\* the one prefix of target that is target without its fragment
C10_Stripped(target) ==
    CHOOSE key \in {SubSeq(target, 1, n) : n \in 0..Len(target)} : C10_IsStripped(key, target)

\* C10: every key of the label map is a navigation target with its fragment
\* stripped, every target has its key, and the label under a key is the label of
\* the first node, in depth-first pre-order over the whole tree, whose stripped
\* target is that key (as a path); later such nodes change nothing.
C10_TocLabelMap ==
    LabelMapBuilt =>
        LET nodes == PreOrder(input.nav)
            same(i, key) == PathEq(C10_Stripped(nodes[i].content), key)
        IN  /\ \A e \in output.v :
                  \E i \in 1..Len(nodes) :
                     /\ e.key = C10_Stripped(nodes[i].content)
                     /\ e.label = nodes[i].label
                     /\ \A j \in 1..(i - 1) : ~same(j, e.key)
            /\ \A i \in 1..Len(nodes) : \E e \in output.v : same(i, e.key)
            /\ \A e1, e2 \in output.v : PathEq(e1.key, e2.key) => e1 = e2

\* the target a#s of a nested node came after the target a of its parent: the
\* map holds one entry for a, with the parent's label
C10_Witness ==
    /\ LabelMapBuilt
    /\ Len(input.nav) = 2
    /\ input.nav[1].content = <<"b", "#", "s", "#", "t">>
    /\ input.nav[2].content = <<"a">>
    /\ Len(input.nav[2].children) = 1
    /\ input.nav[2].children[1].content = <<"a", "#", "s">>
    /\ output.v = {[key |-> <<"b">>, label |-> NavLabel(1)], [key |-> <<"a">>, label |-> NavLabel(2)]}

EntriesBuilt == HasReturned(output) /\ input.fn = "build_toc_entries"

\* entries mirrors nav: as many siblings, in the same order, each with the
\* node's label, the node's target without its fragment, and mirrored children
RECURSIVE C11_Mirrors(_, _)
C11_Mirrors(nav, entries) ==
    /\ Len(entries) = Len(nav)
    /\ \A i \in 1..Len(nav) :
          /\ entries[i].label = nav[i].label
          /\ entries[i].href = C10_Stripped(nav[i].content)
          /\ C11_Mirrors(nav[i].children, entries[i].children)

\* C11: the entry tree is isomorphic to the navigation tree (same node count,
\* same parent/child structure, siblings in source order, labels unchanged, no
\* node merged with another of the same target), every href is the node's target
\* with its fragment stripped, and no href at any depth contains '#'.
C11_EntryTree ==
    EntriesBuilt =>
        /\ C11_Mirrors(input.nav, output.v)
        /\ Len(PreOrder(output.v)) = Len(PreOrder(input.nav))
        /\ \A i \in 1..Len(PreOrder(output.v)) :
              \A k \in 1..Len(PreOrder(output.v)[i].href) :
                 PreOrder(output.v)[i].href[k] # "#"

\* two siblings with the same stripped target, the second with a nested child
\* whose target has two '#': three entries, none merged, all hrefs stripped
C11_Witness ==
    /\ EntriesBuilt
    /\ Len(input.nav) = 2
    /\ input.nav[1].content = <<"a">>
    /\ input.nav[2].content = <<"a", "#", "s">>
    /\ Len(input.nav[2].children) = 1
    /\ input.nav[2].children[1].content = <<"b", "#", "s", "#", "t">>
    /\ output.v = <<TocEntry(NavLabel(1), <<"a">>, <<>>),
                    TocEntry(NavLabel(2), <<"a">>,
                             <<TocEntry(NavLabel(3), <<"b">>, <<>>)>>)>>

----------------------------------------------------------------------------
(* Metadata (src/epub/service.rs): metadata_value, collect_metadata_values and     *)
(* extract_metadata.  doc.metadata is the package reader's list of          *)
(* [property, value] pairs; doc.title and doc.release_identifier are what   *)
(* its accessors get_title() and get_release_identifier() return.           *)

MetadataItem(property, value) == [property |-> property, value |-> value]

\* fault: the suffix test forgets the ':' before the key
PropertyMatchesAnySuffix(property, keys) ==
    \E i \in 1..Len(keys) :
        \/ ToAsciiLowercase(property) = ToAsciiLowercase(keys[i])
        \/ EndsWith(ToAsciiLowercase(property), ToAsciiLowercase(keys[i]))

\* keys.iter().any(|key| property == key || property.ends_with(":" + key)),
\* both sides lower-cased
PropertyMatches(property, keys) ==
    LET property_lower == ToAsciiLowercase(property)
    IN  \E i \in 1..Len(keys) :
            LET key == ToAsciiLowercase(keys[i])
            IN  property_lower = key \/ EndsWith(property_lower, <<":">> \o key)

\* doc.metadata.iter().find_map(..): the value of the first pair that matches
metadata_value(doc, keys) ==
    LET hit == {i \in 1..Len(doc.metadata) : PropertyMatches(doc.metadata[i].property, keys)}
    IN  IF hit = {} THEN None
        ELSE Some(doc.metadata[CHOOSE i \in hit : \A j \in hit : i <= j].value)

\* the loop of collect_metadata_values over the pairs still to visit
RECURSIVE CollectMetadataValuesFrom(_, _, _)
CollectMetadataValuesFrom(items, keys, values) ==
    IF items = <<>> THEN values
    ELSE LET item  == Head(items)
             value == Trim(item.value)
             push  == /\ PropertyMatches(item.property, keys)
                      /\ value # <<>>
                      /\ ~\E i \in 1..Len(values) : EqIgnoreAsciiCase(values[i], value)
         IN  CollectMetadataValuesFrom(Tail(items), keys,
                                       IF push THEN Append(values, value) ELSE values)

\* fault: duplicates are found by ==, not eq_ignore_ascii_case
RECURSIVE CollectMetadataValuesExactCase(_, _, _)
CollectMetadataValuesExactCase(items, keys, values) ==
    IF items = <<>> THEN values
    ELSE LET item  == Head(items)
             value == Trim(item.value)
             push  == /\ PropertyMatches(item.property, keys)
                      /\ value # <<>>
                      /\ ~\E i \in 1..Len(values) : values[i] = value
         IN  CollectMetadataValuesExactCase(Tail(items), keys,
                                            IF push THEN Append(values, value) ELSE values)

CollectMetadataValuesCaseSensitive(doc, keys) ==
    CollectMetadataValuesExactCase(doc.metadata, keys, <<>>)

collect_metadata_values(doc, keys) == CollectMetadataValuesFrom(doc.metadata, keys, <<>>)

get_title(doc) == doc.title

get_release_identifier(doc) == doc.release_identifier

KeyIdentifier == <<"i", "d", "e", "n", "t", "i", "f", "i", "e", "r">>

KeyTitle == <<"t", "i", "t", "l", "e">>

KeyCreator == <<"c", "r", "e", "a", "t", "o", "r">>

KeyAuthor == <<"a", "u", "t", "h", "o", "r">>

KeyLanguage == <<"l", "a", "n", "g", "u", "a", "g", "e">>

KeyDescription == <<"d", "e", "s", "c", "r", "i", "p", "t", "i", "o", "n">>

KeyAbstract == <<"a", "b", "s", "t", "r", "a", "c", "t">>

\* fault: the release identifier is preferred to the declared one
MetadataIdentifierReleaseFirst(identifier, release_identifier) ==
    IF IsSome(release_identifier) THEN release_identifier ELSE identifier

\* identifier.clone().or(release_identifier.clone())
MetadataIdentifier(identifier, release_identifier) ==
    IF IsSome(identifier) THEN identifier ELSE release_identifier

extract_metadata(doc) ==
    LET identifier         == metadata_value(doc, <<KeyIdentifier>>)
        release_identifier == get_release_identifier(doc)
        title              == IF IsSome(get_title(doc)) THEN get_title(doc)
                              ELSE metadata_value(doc, <<KeyTitle>>)
    IN  [identifier  |-> MetadataIdentifier(identifier, release_identifier),
         title       |-> title,
         authors     |-> collect_metadata_values(doc, <<KeyCreator, KeyAuthor>>),
         language    |-> metadata_value(doc, <<KeyLanguage>>),
         description |-> metadata_value(doc, <<KeyDescription, KeyAbstract>>)]

(* The pairs collect_metadata_values is applied to *)

PropDcCreator == <<"d", "c", ":">> \o KeyCreator

PropAuthorUpper == <<"A", "U", "T", "H", "O", "R">>

PropCoauthor == <<"c", "o">> \o KeyAuthor

AuthorJo == <<"J", "o">>

AuthorJoUpper == <<"J", "O">>

AuthorJoPadded == <<" ", "j", "o", " ">>

AuthorAl == <<"A", "l">>

AuthorBlank == <<" ">>

AuthorPairs ==
    { MetadataItem(p, v) :
         p \in {PropDcCreator, PropAuthorUpper, PropCoauthor},
         v \in {AuthorJo, AuthorJoUpper, AuthorJoPadded, AuthorAl, AuthorBlank} }

AuthorInputs ==
    [fn : {"collect_metadata_values"}, metadata : SeqsUpTo(AuthorPairs, MaxMeta),
     title : {None}, release_identifier : {None}]

InitAuthors ==
    /\ ReaderIdle
    /\ input \in AuthorInputs
    /\ output = NotRun

CollectMetadataValues ==
    /\ output = NotRun
    /\ input.fn = "collect_metadata_values"
    /\ output' = Returned(collect_metadata_values(input, <<KeyCreator, KeyAuthor>>))
    /\ UNCHANGED input
    /\ UNCHANGED readerVars

NextAuthors == CollectMetadataValues

SpecAuthors == InitAuthors /\ [][NextAuthors]_vars

(* Claims about the author list, checked under SpecAuthors *)

AuthorsCollected == HasReturned(output) /\ input.fn = "collect_metadata_values"

\* the property, lower-cased, is the key or ends with ':' and the key
KeyMatches(property, key) ==
    LET n == Len(property)
        k == Len(key)
    IN  /\ n >= k
        /\ \A i \in 1..k : LowerChar(property[n - k + i]) = key[i]
        /\ (n > k => property[n - k] = ":")

C7_IsAuthor(i) ==
    \/ KeyMatches(input.metadata[i].property, KeyCreator)
    \/ KeyMatches(input.metadata[i].property, KeyAuthor)

\* pair i is the first creator/author pair with its trimmed, non-empty value,
\* case ignored
C7_FirstOccurrence(i) ==
    /\ C7_IsAuthor(i)
    /\ Trim(input.metadata[i].value) # <<>>
    /\ \A j \in 1..(i - 1) :
          C7_IsAuthor(j) =>
             ~EqIgnoreAsciiCase(Trim(input.metadata[j].value), Trim(input.metadata[i].value))

\* C7: the author list holds, for the creator/author pairs, each trimmed
\* non-empty value once under case-insensitive comparison, in order of first
\* occurrence and with the casing of the first occurrence; no entry is empty and
\* no two entries are equal ignoring case.
C7_AuthorList ==
    AuthorsCollected =>
        LET first == SelectSeq([i \in 1..Len(input.metadata) |-> i], C7_FirstOccurrence)
        IN  /\ output.v = [k \in 1..Len(first) |-> Trim(input.metadata[first[k]].value)]
            /\ \A k \in 1..Len(output.v) : output.v[k] # <<>>
            /\ \A k, l \in 1..Len(output.v) :
                  k # l => ToAsciiLowercase(output.v[k]) # ToAsciiLowercase(output.v[l])

\* Jo, JO, Al under creator/author properties have given Jo, Al
C7_Witness ==
    /\ AuthorsCollected
    /\ Len(input.metadata) = 3
    /\ input.metadata[1] = MetadataItem(PropDcCreator, AuthorJo)
    /\ input.metadata[2] = MetadataItem(PropAuthorUpper, AuthorJoUpper)
    /\ input.metadata[3].value = AuthorAl
    /\ output.v = <<AuthorJo, AuthorAl>>

----------------------------------------------------------------------------
(* Opening a book (src/epub/service.rs): extract_content and open_book, once    *)
(* EpubDoc::new has succeeded.                                              *)

\* fault: the manifest item's href is filled with its id
ManifestItemHrefIsId(id, href, media_type) == [id |-> id, href |-> id, media_type |-> media_type]

ManifestItem(id, href, media_type) == [id |-> id, href |-> href, media_type |-> media_type]

\* the contents extract_content may return (one per chapter list)
extract_content(doc) ==
    LET manifest   == [id \in DOMAIN doc.resources |->
                          ManifestItem(id, doc.resources[id].path, doc.resources[id].mime)]
        toc_labels == build_toc_label_map(doc.toc)
    IN  { [manifest |-> manifest, spine |-> doc.spine, toc |-> build_toc_entries(doc.toc),
           chapters |-> chapters] :
             chapters \in collect_chapters(doc, doc.spine, toc_labels) }

\* identifier.unwrap_or_else(|| Uuid::new_v4().to_string()), identifier being
\* metadata.identifier.or_else(|| doc.get_release_identifier())
BookIdOf(metadata, doc, uuid) ==
    IF IsSome(metadata.identifier) THEN metadata.identifier.v
    ELSE IF IsSome(get_release_identifier(doc)) THEN get_release_identifier(doc).v
    ELSE uuid

\* the books open_book may return for a package, uuid being what Uuid::new_v4 gives
open_book(path, doc, uuid) ==
    LET metadata == extract_metadata(doc)
    IN  { [BookEmpty EXCEPT !.id = BookIdOf(metadata, doc, uuid),
                            !.metadata = metadata,
                            !.content = content,
                            !.source_path = path] :
             content \in extract_content(doc) }

(* The packages open_book is applied to: the metadata pairs vary, the       *)
(* content is one package with a chapter, a stylesheet and a dangling id    *)

PropDc(key) == <<"d", "c", ":">> \o key

PropOpfTitleUpper == <<"O", "P", "F", ":", "T", "I", "T", "L", "E">>

PropSubtitle == <<"s", "u", "b">> \o KeyTitle

OpenProperties ==
    { KeyTitle, PropDc(KeyTitle), PropOpfTitleUpper, PropSubtitle, PropDc(KeyIdentifier),
      PropDc(KeyLanguage), KeyDescription, PropDc(KeyAbstract) }

\* the value of the pair at place i names the place, so that the pair a lookup
\* took its value from can be told
ValueAt(i) == <<"v", <<"1", "2", "3", "4", "5", "6", "7", "8", "9">>[i]>>

\* a package may also declare the very text "unknown" as its identifier
OpenPairsAt(i) ==
    {MetadataItem(p, ValueAt(i)) : p \in OpenProperties}
        \cup {MetadataItem(PropDc(KeyIdentifier), UnknownId)}

\* the lists of n pairs, the pair at place i taken from OpenPairsAt(i)
RECURSIVE OpenMetadataOfLen(_)
OpenMetadataOfLen(n) ==
    IF n = 0 THEN {<<>>}
    ELSE {Append(m, p) : m \in OpenMetadataOfLen(n - 1), p \in OpenPairsAt(n)}

OpenMetadata == UNION {OpenMetadataOfLen(n) : n \in 0..MaxMeta}

ReleaseId == <<"r", "@", "1">>

AccessorTitle == <<"T">>

\* texts of the shape of a version 4 UUID, cut short
Uuids == {<<"4", "a">>, <<"4", "b">>}

SourcePath == <<"b", ".", "e">>

OpenInputs ==
    [fn : {"open_book"}, metadata : OpenMetadata, title : {None, Some(AccessorTitle)},
     release_identifier : {None, Some(ReleaseId)},
     resources : {(IdR1 :> [path |-> PathOA, mime |-> MimeHtml])
                     @@ (IdR2 :> [path |-> PathOBA, mime |-> MimeCss])},
     fragments : {(IdR1 :> Some(HtmlBlocks)) @@ (IdR2 :> None)},
     spine : {<<IdR1, IdR2, IdDangling>>},
     toc : {<<NavPoint(NavLabel(1), <<"a", "#", "s">>, <<>>)>>}]

InitOpen ==
    /\ ReaderIdle
    /\ input \in OpenInputs
    /\ output = NotRun

OpenBook ==
    /\ output = NotRun
    /\ input.fn = "open_book"
    /\ \E uuid \in Uuids : \E book \in open_book(SourcePath, input, uuid) :
          output' = Returned(book)
    /\ UNCHANGED input
    /\ UNCHANGED readerVars

NextOpen == OpenBook

SpecOpen == InitOpen /\ [][NextOpen]_vars

(* Claims about the metadata and the id of an opened book, under SpecOpen *)

BookOpened == HasReturned(output) /\ input.fn = "open_book"

\* the value of the first pair, in list order, whose property matches a key
C8_FirstValue(keys) ==
    LET hit == {i \in 1..Len(input.metadata) :
                   \E key \in keys : KeyMatches(input.metadata[i].property, key)}
    IN  IF hit = {} THEN None
        ELSE Some(input.metadata[CHOOSE i \in hit : \A j \in hit : i <= j].value)

C8_TitleVariants == {KeyTitle, PropDc(KeyTitle), PropOpfTitleUpper}

\* C8: a property matches a key when, lower-cased, it is the key or ends with
\* ':' and the key, so title, dc:title and OPF:TITLE are all the title; a
\* single-valued field is the value of the first pair, in list order, that
\* matches one of its keys, and None when no pair matches.
C8_MetadataKeyMatching ==
    BookOpened =>
        /\ output.v.metadata.language = C8_FirstValue({KeyLanguage})
        /\ output.v.metadata.description = C8_FirstValue({KeyDescription, KeyAbstract})
        /\ input.title = None => output.v.metadata.title = C8_FirstValue({KeyTitle})
        /\ \A i \in 1..Len(input.metadata) :
              (/\ input.title = None
               /\ input.metadata[i].property \in C8_TitleVariants
               /\ \A j \in 1..(i - 1) : input.metadata[j].property \notin C8_TitleVariants)
                  => output.v.metadata.title = Some(input.metadata[i].value)

\* with a subtitle and a language before it, the title came from OPF:TITLE
C8_Witness ==
    /\ BookOpened
    /\ input.title = None
    /\ Len(input.metadata) = 3
    /\ input.metadata[1].property = PropSubtitle
    /\ input.metadata[2].property = PropDc(KeyLanguage)
    /\ input.metadata[3].property = PropOpfTitleUpper
    /\ output.v.metadata.title = Some(ValueAt(3))
    /\ output.v.metadata.language = Some(ValueAt(2))
    /\ output.v.metadata.description = None

\* the identifier the preference order of C9 picks, None when one is to be generated
C9_Preferred ==
    IF IsSome(C8_FirstValue({KeyIdentifier})) THEN C8_FirstValue({KeyIdentifier})
    ELSE input.release_identifier

\* C9 as claimed: the id is the declared identifier, else the release
\* identifier, else a generated one, and is never the text "unknown".
C9_IdentifierNeverUnknown ==
    BookOpened =>
        /\ IF IsSome(C9_Preferred) THEN output.v.id = C9_Preferred.v
           ELSE output.v.id \in Uuids
        /\ output.v.id # UnknownId

\* C9, amended: the id is the declared identifier, else the release identifier,
\* else a generated one; the placeholder of the empty book is always replaced,
\* so the id reads "unknown" only when the identifier picked is that very text.
C9_IdentifierPreference ==
    BookOpened =>
        /\ IF IsSome(C9_Preferred) THEN output.v.id = C9_Preferred.v
           ELSE output.v.id \in Uuids
        /\ output.v.id = UnknownId => C9_Preferred = Some(UnknownId)

\* a package with a release identifier and, after other pairs, a declared
\* identifier: the declared one is the id
C9_Witness ==
    /\ BookOpened
    /\ input.release_identifier = Some(ReleaseId)
    /\ Len(input.metadata) = 2
    /\ input.metadata[1].property = PropSubtitle
    /\ input.metadata[2] = MetadataItem(PropDc(KeyIdentifier), ValueAt(2))
    /\ output.v.id = ValueAt(2)

\* C19: when the title accessor gives nothing and no pair matches the title
\* key, the metadata title is the release identifier if the package has one (as
\* the identifier field is), and None only when it has none.
C19_TitleFallback ==
    (BookOpened /\ input.title = None /\ C8_FirstValue({KeyTitle}) = None) =>
        output.v.metadata.title = input.release_identifier

\* a package with a release identifier, no title from the accessor and no
\* title pair has been opened: the identifier is the release identifier, the
\* title is None
C19_Witness ==
    /\ BookOpened
    /\ input.title = None
    /\ input.metadata = <<MetadataItem(PropDc(KeyLanguage), ValueAt(1))>>
    /\ input.release_identifier = Some(ReleaseId)
    /\ output.v.metadata.identifier = Some(ReleaseId)
    /\ output.v.metadata.title = None

----------------------------------------------------------------------------
(* Opening the same package twice (src/epub/service.rs: open_book).  Each   *)
(* call builds its own label map, a HashMap whose iteration order is not    *)
(* fixed from one map to the next, and draws its own Uuid::new_v4.          *)

PathPOA == <<"p", "/", "o", "/", "a">>

\* the navigation trees of at most MaxTocLabels nodes, and one whose two
\* targets a and o/a#s both end the manifest path p/o/a
ReopenNavs ==
    {nav \in NavTrees : Len(PreOrder(nav)) <= MaxTocLabels}
        \cup {<<NavPoint(NavLabel(1), <<"a">>, <<>>),
                NavPoint(NavLabel(2), <<"o", "/", "a", "#", "s">>, <<>>)>>}

ReopenInputs ==
    [fn : {"open_book"},
     metadata : {<<>>, <<MetadataItem(PropDc(KeyIdentifier), ValueAt(1))>>},
     title : {None}, release_identifier : {None, Some(ReleaseId)},
     resources : {(IdR1 :> [path |-> path, mime |-> MimeHtml])
                     @@ (IdR2 :> [path |-> PathOBA, mime |-> MimeCss]) :
                     path \in {PathOA, PathPOA}},
     fragments : {(IdR1 :> Some(HtmlBlocks)) @@ (IdR2 :> None)},
     spine : {<<IdR1, IdR2, IdDangling>>},
     toc : ReopenNavs]

InitReopen ==
    /\ ReaderIdle
    /\ input \in ReopenInputs
    /\ output = NotRun

\* the first call of open_book on the package
OpenBookFirst ==
    /\ output = NotRun
    /\ \E uuid \in Uuids : \E book \in open_book(SourcePath, input, uuid) :
          output' = Returned(<<book>>)
    /\ UNCHANGED input
    /\ UNCHANGED readerVars

\* a second call on the same package; both books are kept for comparison
OpenBookAgain ==
    /\ HasReturned(output)
    /\ Len(output.v) = 1
    /\ \E uuid \in Uuids : \E book \in open_book(SourcePath, input, uuid) :
          output' = Returned(Append(output.v, book))
    /\ UNCHANGED input
    /\ UNCHANGED readerVars

NextReopen == OpenBookFirst \/ OpenBookAgain

SpecReopen == InitReopen /\ [][NextReopen]_vars

(* Claims about opening a package twice, under SpecReopen *)

OpenedTwice == HasReturned(output) /\ Len(output.v) = 2

\* C13: two books built from the same package are equal in every field, chapter
\* titles included, but for the id when it had to be generated (no declared and
\* no release identifier); the order in which the label map is walked does not
\* show in the result.
C13_Idempotent ==
    OpenedTwice =>
        /\ output.v[1].metadata = output.v[2].metadata
        /\ output.v[1].content = output.v[2].content
        /\ output.v[1].source_path = output.v[2].source_path
        /\ (input.metadata # <<>> \/ input.release_identifier # None)
              => output.v[1].id = output.v[2].id

----------------------------------------------------------------------------
(* ReaderApp (src/app.rs) over EpubService::open_book with its failure path *)
(* (src/epub/service.rs: open_book, map_doc_error).  EpubDoc::new(path)     *)
(* answers Ok(doc) or Err(a DocError); input holds the answer to the last   *)
(* call.                                                                    *)

Ok(v) == [tag |-> "Ok", v |-> v]

Err(e) == [tag |-> "Err", e |-> e]

\* the variants of the package reader's DocError
DocErrors == {"IOError", "ArchiveError", "XmlError", "InvalidEpub"}

\* fault: every reader error is reported as an I/O failure
MapDocErrorAllIo(path, error) == [kind |-> "Io", path |-> path, source |-> error]

map_doc_error(path, error) ==
    IF error = "IOError" THEN [kind |-> "Io", path |-> path, source |-> error]
    ELSE [kind |-> "Parse", path |-> path, source |-> error]

\* EpubService::open_book from its first line: the results it may return when
\* EpubDoc::new(path) has answered doc_result
open_book_result(path, doc_result, uuid) ==
    IF doc_result.tag = "Err" THEN {Err(map_doc_error(path, doc_result.e))}
    ELSE {Ok(book) : book \in open_book(path, doc_result.v, uuid)}

\* ReaderApp::open_book: self.parser.open_book(path)? and then
\* self.state.set_active_book(book)
ReaderApp_open_book(path, doc_result) ==
    \E uuid \in Uuids : \E result \in open_book_result(path, doc_result, uuid) :
        /\ IF result.tag = "Err"
           THEN UNCHANGED <<active_book, current_chapter>>
           ELSE /\ current_chapter' = InitialCursor(result.v)
                /\ active_book' = Some(result.v)
        /\ op' = "open_book"
        /\ arg' = Some(path)
        /\ ret' = IF result.tag = "Err" THEN result ELSE Ok(TRUE)
        /\ input' = doc_result
        /\ UNCHANGED output

(* The files the application is pointed at: unreadable, malformed, or a     *)
(* package of up to MaxChapters reading-order items                         *)

OtherPath == <<"c", ".", "e">>

AppPaths == {SourcePath, OtherPath}

AppDocs ==
    [fn : {"open_book"}, metadata : {<<>>}, title : {Some(AccessorTitle)},
     release_identifier : {Some(ReleaseId)},
     resources : {(IdR1 :> [path |-> PathOA, mime |-> MimeHtml])
                     @@ (IdR2 :> [path |-> PathOBA, mime |-> MimeHtml])},
     fragments : {(IdR1 :> Some(HtmlBlocks)) @@ (IdR2 :> Some(HtmlTextOnly))},
     spine : SeqsUpTo({IdR1, IdR2}, MaxChapters),
     toc : {<<>>}]

AppDocResults == {Ok(doc) : doc \in AppDocs} \cup {Err(e) : e \in DocErrors}

NextApp ==
    \/ \E path \in AppPaths, doc_result \in AppDocResults : ReaderApp_open_book(path, doc_result)
    \/ next_chapter
    \/ previous_chapter

SpecApp == Init /\ [][NextApp]_vars

(* Claims about ReaderApp::open_book, checked under SpecApp *)

\* C14: a call of ReaderApp::open_book either installs a book exactly as the
\* parser built it, with the cursor reset (first chapter, or none without
\* chapters), or returns an error carrying the path, of kind Io when the
\* reader's error is an I/O error and Parse for every other reader error, and
\* then leaves the active book and the cursor as they were.
C14_Step ==
    op' = "open_book" =>
        IF input'.tag = "Err"
        THEN /\ ret'.tag = "Err"
             /\ ret'.e.kind = (IF input'.e = "IOError" THEN "Io" ELSE "Parse")
             /\ ret'.e.kind \in {"Io", "Parse"}
             /\ ret'.e.path = arg'.v
             /\ ret'.e.source = input'.e
             /\ active_book' = active_book
             /\ current_chapter' = current_chapter
        ELSE /\ ret' = Ok(TRUE)
             /\ IsSome(active_book')
             /\ \E uuid \in Uuids : active_book'.v \in open_book(arg'.v, input'.v, uuid)
             /\ active_book'.v.source_path = arg'.v
             /\ current_chapter' =
                   IF active_book'.v.content.chapters = <<>> THEN None ELSE Some(0)

C14_AllOrNothing == [][C14_Step]_vars

\* a book of two chapters was open at its second chapter when opening another
\* file failed on malformed XML: Parse error with that path, book and cursor kept
C14_Witness ==
    /\ op = "open_book"
    /\ arg = Some(OtherPath)
    /\ ret = Err([kind |-> "Parse", path |-> OtherPath, source |-> "XmlError"])
    /\ IsSome(active_book)
    /\ active_book.v.source_path = SourcePath
    /\ Len(active_book.v.content.chapters) = 2
    /\ current_chapter = Some(1)

----------------------------------------------------------------------------
(* Flattening blocks to text (src/epub/service.rs: spans_to_text,           *)
(* blocks_to_plain_text), applied to block lists of up to MaxBlocks blocks. *)
(* Span texts are cut from rendered lines, so they hold no line break; they *)
(* may be blank, padded, or hold inner spaces.                              *)

FlattenSpans ==
    {TextSpanPlain(<<" ">>), TextSpanPlain(<<"T">>), TextSpan(<<" ", "a", " ", "b", " ">>, TRUE, FALSE)}

FlattenBlocks ==
    {Paragraph(spans) : spans \in SeqsUpTo(FlattenSpans, 2)}
        \cup {Heading(1, <<TextSpanPlain(<<"T">>)>>)}

FlattenInputs ==
    [fn : {"blocks_to_plain_text"}, blocks : SeqsUpTo(FlattenBlocks, MaxBlocks)]

InitFlatten ==
    /\ ReaderIdle
    /\ input \in FlattenInputs
    /\ output = NotRun

BlocksToPlainText ==
    /\ output = NotRun
    /\ input.fn = "blocks_to_plain_text"
    /\ output' = Returned(blocks_to_plain_text(input.blocks))
    /\ UNCHANGED input
    /\ UNCHANGED readerVars

NextFlatten == BlocksToPlainText

SpecFlatten == InitFlatten /\ [][NextFlatten]_vars

(* Claims about the flattened text, checked under SpecFlatten *)

Flattened == HasReturned(output) /\ input.fn = "blocks_to_plain_text"

\* the trimmed texts of the spans that are not blank, one space between them
RECURSIVE C15_BlockText(_)
C15_BlockText(spans) ==
    IF spans = <<>> THEN <<>>
    ELSE LET rest == C15_BlockText(Tail(spans))
             text == Trim(Head(spans).text)
         IN  IF text = <<>> THEN rest
             ELSE IF rest = <<>> THEN text
             ELSE text \o <<" ">> \o rest

\* the texts of the blocks that are not blank, one blank line between them
RECURSIVE C15_Text(_)
C15_Text(blocks) ==
    IF blocks = <<>> THEN <<>>
    ELSE LET rest == C15_Text(Tail(blocks))
             text == C15_BlockText(Head(blocks).spans)
         IN  IF text = <<>> THEN rest
             ELSE IF rest = <<>> THEN text
             ELSE text \o <<"\n", "\n">> \o rest

\* C15: the plain text of a block list is the texts of its non-blank blocks
\* joined by exactly "\n\n", a block's text being its trimmed non-empty span
\* texts joined by single spaces; it neither starts nor ends with "\n\n" and
\* never holds two "\n\n" in a row.
C15_Flattening ==
    Flattened =>
        /\ output.v = C15_Text(input.blocks)
        /\ ~StartsWith(output.v, <<"\n", "\n">>)
        /\ ~EndsWith(output.v, <<"\n", "\n">>)
        /\ ~Contains(output.v, <<"\n", "\n", "\n", "\n">>)

\* a heading, a paragraph of blank spans, and a paragraph of two spans give
\* heading text, one blank line, and the two span texts with a space between
C15_Witness ==
    /\ Flattened
    /\ input.blocks = <<Heading(1, <<TextSpanPlain(<<"T">>)>>),
                        Paragraph(<<TextSpanPlain(<<" ">>), TextSpanPlain(<<" ">>)>>),
                        Paragraph(<<TextSpan(<<" ", "a", " ", "b", " ">>, TRUE, FALSE),
                                    TextSpanPlain(<<"T">>)>>)>>
    /\ output.v = <<"T", "\n", "\n", "a", " ", "b", " ", "T">>

----------------------------------------------------------------------------
(* The content of a package (src/epub/service.rs: extract_content), over    *)
(* the manifests, fragments and reading orders of the chapter inputs        *)

ContentInputs ==
    [fn : {"extract_content"}, resources : ChapterResources, fragments : ChapterFragments,
     spine : ChapterSpines, toc : {<<NavPoint(NavLabel(1), <<"a", "#", "s">>, <<>>)>>}]

InitContent ==
    /\ ReaderIdle
    /\ input \in ContentInputs
    /\ output = NotRun

ExtractContent ==
    /\ output = NotRun
    /\ input.fn = "extract_content"
    /\ \E content \in extract_content(input) : output' = Returned(content)
    /\ UNCHANGED input
    /\ UNCHANGED readerVars

NextContent == ExtractContent

SpecContent == InitContent /\ [][NextContent]_vars

(* Claims about the content, checked under SpecContent *)

ContentExtracted == HasReturned(output) /\ input.fn = "extract_content"

\* C16: the id of every chapter is a key of the manifest and an element of the
\* reading order, and the chapter's href is the href of the manifest item
\* with that id.
C16_ChapterHrefs ==
    ContentExtracted =>
        \A i \in 1..Len(output.v.chapters) :
           LET chapter == output.v.chapters[i]
           IN  /\ chapter.id \in DOMAIN output.v.manifest
               /\ \E k \in 1..Len(output.v.spine) : output.v.spine[k] = chapter.id
               /\ chapter.href = output.v.manifest[chapter.id].href

\* the reading order names a dangling id and then both resources: two
\* chapters, each with the href of its own manifest item
C16_Witness ==
    /\ ContentExtracted
    /\ input.spine = <<IdDangling, IdR2, IdR1>>
    /\ Len(output.v.chapters) = 2
    /\ output.v.chapters[1].id = IdR2
    /\ output.v.chapters[1].href = PathOBA
    /\ output.v.chapters[2].id = IdR1
    /\ output.v.chapters[2].href = PathOA
    /\ output.v.manifest[IdR1].href = PathOA
    /\ output.v.manifest[IdR2].href = PathOBA

----------------------------------------------------------------------------
(* The block parser (src/epub/service.rs: blocks_from_tagged_lines and its  *)
(* helpers).  The renderer's answer is a list of lines; a line is a list of *)
(* tagged strings [s, bold, italic], bold and italic telling whether the    *)
(* tag holds a Strong and an Emphasis annotation.                           *)

TaggedString(s, bold, italic) == [s |-> s, bold |-> bold, italic |-> italic]

\* TaggedLine::into_string: the strings of the line, one after the other
RECURSIVE into_string(_)
into_string(line) ==
    IF line = <<>> THEN <<>> ELSE Head(line).s \o into_string(Tail(line))

\* the character U+2022 (bullet), written as one element of a text
Bullet == "U+2022"

AsciiDigits == {"0", "1", "2", "3", "4", "5", "6", "7", "8", "9"}

\* the number of characters at the start of s that are in chars
RECURSIVE LeadingCount(_, _)
LeadingCount(s, chars) ==
    IF s = <<>> \/ Head(s) \notin chars THEN 0
    ELSE 1 + LeadingCount(Tail(s), chars)

\* str::trim_matches: the characters of chars removed from both ends
RECURSIVE TrimMatches(_, _)
TrimMatches(s, chars) ==
    IF s = <<>> THEN <<>>
    ELSE IF Head(s) \in chars THEN TrimMatches(Tail(s), chars)
    ELSE IF s[Len(s)] \in chars THEN TrimMatches(SubSeq(s, 1, Len(s) - 1), chars)
    ELSE s

\* text.split_whitespace().collect::<Vec<_>>().join(" ")
RECURSIVE normalize_whitespace(_)
normalize_whitespace(text) ==
    LET rest == TrimStart(text)
        n    == IF \E i \in 1..Len(rest) : rest[i] \in Whitespace
                THEN (CHOOSE i \in 1..Len(rest) :
                         /\ rest[i] \in Whitespace
                         /\ \A j \in 1..(i - 1) : rest[j] \notin Whitespace) - 1
                ELSE Len(rest)
        tail == normalize_whitespace(SubSeq(rest, n + 1, Len(rest)))
    IN  IF rest = <<>> THEN <<>>
        ELSE IF tail = <<>> THEN SubSeq(rest, 1, n)
        ELSE SubSeq(rest, 1, n) \o <<" ">> \o tail

underline_heading_level(next_line) ==
    IF ~IsSome(next_line) THEN None
    ELSE LET trimmed == Trim(next_line.v)
         IN  IF trimmed = <<>> THEN None
             ELSE IF \A i \in 1..Len(trimmed) : trimmed[i] = "=" THEN Some(1)
             ELSE IF \A i \in 1..Len(trimmed) : trimmed[i] = "-" THEN Some(2)
             ELSE None

\* fault: a line of '#' alone is a heading too
ParseHashHeadingAllowEmpty(line) ==
    IF ~StartsWith(line, <<"#">>) THEN None
    ELSE LET count == LeadingCount(line, {"#"})
             level == IF count < 6 THEN count ELSE 6
         IN  Some(<<level, Trim(SubSeq(line, level + 1, Len(line)))>>)

\* fault: the count of '#' is not clamped
ParseHashHeadingNoClamp(line) ==
    IF ~StartsWith(line, <<"#">>) THEN None
    ELSE LET level == LeadingCount(line, {"#"})
             text  == Trim(SubSeq(line, level + 1, Len(line)))
         IN  IF text = <<>> THEN None ELSE Some(<<level, text>>)

\* Some(<<level, text>>) or None
parse_hash_heading(line) ==
    IF ~StartsWith(line, <<"#">>) THEN None
    ELSE LET count == LeadingCount(line, {"#"})
             level == IF count < 6 THEN count ELSE 6
             text  == Trim(SubSeq(line, level + 1, Len(line)))
         IN  IF text = <<>> THEN None
             ELSE Some(<<IF level > 1 THEN level ELSE 1, text>>)

\* Some(<<prefix, text>>) or None
parse_list_item(line) ==
    LET trimmed == TrimStart(line)
        digits  == LeadingCount(trimmed, AsciiDigits)
    IN  IF \/ StartsWith(trimmed, <<"*", " ">>)
           \/ StartsWith(trimmed, <<"-", " ">>)
           \/ StartsWith(trimmed, <<"+", " ">>)
        THEN Some(<<<<Bullet, " ">>, SubSeq(trimmed, 3, Len(trimmed))>>)
        ELSE IF digits > 0 /\ Len(trimmed) > digits /\ trimmed[digits + 1] = "."
        THEN Some(<<<<Bullet, " ">>, TrimStart(SubSeq(trimmed, digits + 2, Len(trimmed)))>>)
        ELSE None

\* the span one tagged string becomes, in a list of at most one span
SpansFromTagged(tagged) ==
    LET text   == Trim(tagged.s)
        styled == IF tagged.bold \/ tagged.italic
                  THEN Trim(TrimMatches(text, {"*", "_"}))
                  ELSE text
    IN  IF tagged.s = <<>> \/ text = <<>> \/ styled = <<>> THEN <<>>
        ELSE <<TextSpan(styled, tagged.bold, tagged.italic)>>

RECURSIVE spans_from_line(_)
spans_from_line(line) ==
    IF line = <<>> THEN <<>>
    ELSE SpansFromTagged(Head(line)) \o spans_from_line(Tail(line))

\* target with the text of its last span followed by tail
PushToLast(target, tail) ==
    [target EXCEPT ![Len(target)].text = @ \o tail]

\* fault: a span is pushed as a new one whatever the flags of the last
PushSpanNoMerge(target, span) ==
    IF span.text = <<>> THEN target ELSE Append(target, span)

push_span(target, span) ==
    IF span.text = <<>> THEN target
    ELSE IF /\ target # <<>>
            /\ target[Len(target)].bold = span.bold
            /\ target[Len(target)].italic = span.italic
    THEN PushToLast(target,
                    (IF /\ ~EndsWith(target[Len(target)].text, <<" ">>)
                        /\ ~StartsWith(span.text, <<" ">>)
                     THEN <<" ">> ELSE <<>>) \o span.text)
    ELSE Append(target, span)

\* the loop of append_spans from the span at hand on, first being its flag
RECURSIVE AppendSpansLoop(_, _, _, _)
AppendSpansLoop(target, spans, insert_space, first) ==
    IF spans = <<>> THEN target
    ELSE IF Head(spans).text = <<>>
    THEN AppendSpansLoop(target, Tail(spans), insert_space, first)
    ELSE LET spaced == IF /\ insert_space /\ first /\ target # <<>>
                          /\ ~EndsWith(target[Len(target)].text, <<" ">>)
                       THEN PushToLast(target, <<" ">>)
                       ELSE target
         IN  AppendSpansLoop(push_span(spaced, Head(spans)), Tail(spans), insert_space, FALSE)

append_spans(target, spans, insert_space) ==
    AppendSpansLoop(target, spans, insert_space, TRUE)

RECURSIVE MergeSpansInto(_, _)
MergeSpansInto(merged, spans) ==
    IF spans = <<>> THEN merged
    ELSE MergeSpansInto(push_span(merged, Head(spans)), Tail(spans))

merge_spans(spans) == MergeSpansInto(<<>>, spans)

\* the blocks after the call; the paragraph is left empty by it
flush_paragraph_spans(paragraph, blocks) ==
    IF paragraph = <<>> THEN blocks
    ELSE LET merged == merge_spans(paragraph)
             text   == spans_to_text(merged)
         IN  IF Trim(text) # <<>> THEN Append(blocks, Paragraph(merged)) ELSE blocks

\* the state of the scan: the 0-based line index i, the blocks pushed and the
\* spans of the paragraph being gathered
ScanStart == [i |-> 0, blocks |-> <<>>, paragraph_spans |-> <<>>]

\* fault: a blank line is flushed on but not stepped over
ScanLineStuckOnBlank(lines, st) ==
    IF Trim(into_string(lines[st.i + 1])) = <<>>
    THEN [i |-> st.i,
          blocks |-> flush_paragraph_spans(st.paragraph_spans, st.blocks),
          paragraph_spans |-> <<>>]
    ELSE [i |-> st.i + 1, blocks |-> st.blocks, paragraph_spans |-> st.paragraph_spans]

\* one iteration of the while loop of blocks_from_tagged_lines
ScanLine(lines, st) ==
    LET line      == lines[st.i + 1]
        trimmed   == Trim(into_string(line))
        next_line == IF st.i + 2 <= Len(lines)
                     THEN Some(Trim(into_string(lines[st.i + 2])))
                     ELSE None
        flushed   == flush_paragraph_spans(st.paragraph_spans, st.blocks)
        underline == underline_heading_level(next_line)
        hash      == parse_hash_heading(trimmed)
        item      == parse_list_item(trimmed)
    IN  IF trimmed = <<>>
        THEN [i |-> st.i + 1, blocks |-> flushed, paragraph_spans |-> <<>>]
        ELSE IF IsSome(underline)
        THEN [i |-> st.i + 2,
              blocks |-> Append(flushed, Heading(underline.v, <<TextSpanPlain(trimmed)>>)),
              paragraph_spans |-> <<>>]
        ELSE IF IsSome(hash)
        THEN [i |-> st.i + 1,
              blocks |-> Append(flushed, Heading(hash.v[1], <<TextSpanPlain(hash.v[2])>>)),
              paragraph_spans |-> <<>>]
        ELSE IF IsSome(item)
        THEN [i |-> st.i + 1,
              blocks |-> Append(flushed,
                                Paragraph(<<TextSpanPlain(item.v[1] \o Trim(item.v[2]))>>)),
              paragraph_spans |-> <<>>]
        ELSE [i |-> st.i + 1,
              blocks |-> st.blocks,
              paragraph_spans |-> append_spans(st.paragraph_spans, spans_from_line(line),
                                               st.paragraph_spans # <<>>)]

\* while i < lines.len() { ... }
RECURSIVE ScanFrom(_, _)
ScanFrom(lines, st) ==
    IF st.i < Len(lines) THEN ScanFrom(lines, ScanLine(lines, st)) ELSE st

\* fault: the fallback paragraph is added whatever the scan has found
ScanFinishAlwaysFallback(lines, st) ==
    LET blocks         == flush_paragraph_spans(st.paragraph_spans, st.blocks)
        fallback_lines == Join([k \in 1..Len(lines) |-> into_string(lines[k])], <<"\n">>)
        condensed      == normalize_whitespace(fallback_lines)
    IN  IF Trim(condensed) # <<>>
        THEN Append(blocks, Paragraph(<<TextSpanPlain(Trim(condensed))>>))
        ELSE blocks

\* what the code after the loop makes of the state the loop ended in
ScanFinish(lines, st) ==
    LET blocks         == flush_paragraph_spans(st.paragraph_spans, st.blocks)
        fallback_lines == Join([k \in 1..Len(lines) |-> into_string(lines[k])], <<"\n">>)
        condensed      == normalize_whitespace(fallback_lines)
    IN  IF blocks # <<>> THEN blocks
        ELSE IF Trim(condensed) # <<>> THEN <<Paragraph(<<TextSpanPlain(Trim(condensed))>>)>>
        ELSE <<>>

blocks_from_tagged_lines(lines) == ScanFinish(lines, ScanFrom(lines, ScanStart))

(* The rendered fragments the parser is applied to: up to MaxLines lines    *)

PlainLine(s) == <<TaggedString(s, FALSE, FALSE)>>

ParserLines ==
    { <<>>,
      PlainLine(<<" ">>),
      PlainLine(<<"=", "=">>),
      PlainLine(<<"-">>),
      PlainLine(<<"#", " ", "T">>),
      PlainLine(<<"#", "#", "#", "#", "#", "#", "#", "x">>),
      PlainLine(<<"#">>),
      PlainLine(<<"-", " ", "x">>),
      PlainLine(<<"1", ".">>),
      PlainLine(<<"x">>),
      <<TaggedString(<<"*", "b", "*">>, TRUE, FALSE)>>,
      <<TaggedString(<<"*", "*">>, TRUE, FALSE)>>,
      <<TaggedString(<<"a", " ">>, FALSE, FALSE), TaggedString(<<"i">>, FALSE, TRUE),
        TaggedString(<<>>, FALSE, FALSE), TaggedString(<<" ", "c">>, FALSE, FALSE)>> }

ParserInputs == [fn : {"blocks_from_tagged_lines"}, lines : SeqsUpTo(ParserLines, MaxLines)]

InitBlocks ==
    /\ ReaderIdle
    /\ input \in ParserInputs
    /\ output = NotRun

BlocksFromTaggedLines ==
    /\ output = NotRun
    /\ input.fn = "blocks_from_tagged_lines"
    /\ output' = Returned(blocks_from_tagged_lines(input.lines))
    /\ UNCHANGED input
    /\ UNCHANGED readerVars

NextBlocks == BlocksFromTaggedLines

SpecBlocks == InitBlocks /\ [][NextBlocks]_vars

(* Claims about the block parser, checked under SpecBlocks *)

BlocksParsed == HasReturned(output) /\ input.fn = "blocks_from_tagged_lines"

\* line k of the input as the parser reads it: its strings joined, trimmed
C17_Line(k) == Trim(into_string(input.lines[k]))

\* line k is not blank and made of the character c only
C17_AllOf(k, c) ==
    /\ k <= Len(input.lines)
    /\ C17_Line(k) # <<>>
    /\ \A j \in 1..Len(C17_Line(k)) : C17_Line(k)[j] = c

\* the number of '#' line k starts with
C17_Hashes(k) ==
    Cardinality({n \in 1..Len(C17_Line(k)) : \A j \in 1..n : C17_Line(k)[j] = "#"})

\* C17: every Heading the block parser returns has a level from 1 to 6: 1 for a
\* line underlined with '=', 2 for a line underlined with '-', and for a line
\* starting with '#' the number of leading '#', clamped to 6 at most (and 1 at
\* least).
C17_HeadingLevels ==
    BlocksParsed =>
        \A i \in 1..Len(output.v) :
           output.v[i].kind = "Heading" =>
              /\ output.v[i].level \in 1..6
              /\ \E k \in 1..Len(input.lines) :
                    \/ C17_AllOf(k + 1, "=") /\ output.v[i].level = 1
                    \/ C17_AllOf(k + 1, "-") /\ output.v[i].level = 2
                    \/ /\ C17_Hashes(k) >= 1
                       /\ output.v[i].level = IF C17_Hashes(k) <= 6 THEN C17_Hashes(k) ELSE 6

\* a line of seven '#' and a line underlined with '-': levels 6 and 2
C17_Witness ==
    /\ BlocksParsed
    /\ input.lines = <<PlainLine(<<"#", "#", "#", "#", "#", "#", "#", "x">>),
                       PlainLine(<<"x">>), PlainLine(<<"-">>)>>
    /\ output.v = <<Heading(6, <<TextSpanPlain(<<"#", "x">>)>>),
                    Heading(2, <<TextSpanPlain(<<"x">>)>>)>>

\* C18: no empty block is returned: every block, be it a heading, a list-item
\* paragraph, a flushed paragraph or the fallback paragraph, has at least one
\* span, every span's text is non-empty after trimming, and the block's joined
\* text is non-empty after trimming.
C18_NoEmptyBlock ==
    BlocksParsed =>
        \A i \in 1..Len(output.v) :
           /\ output.v[i].spans # <<>>
           /\ \A k \in 1..Len(output.v[i].spans) : Trim(output.v[i].spans[k].text) # <<>>
           /\ Trim(C15_BlockText(output.v[i].spans)) # <<>>

\* a bold string of markers only, a numbered item with no text and a text
\* line: the markers give no block, the item a bullet, the text a paragraph
C18_Witness ==
    /\ BlocksParsed
    /\ input.lines = <<<<TaggedString(<<"*", "*">>, TRUE, FALSE)>>,
                       PlainLine(<<"1", ".">>), PlainLine(<<"x">>)>>
    /\ output.v = <<Paragraph(<<TextSpanPlain(<<Bullet, " ">>)>>),
                    Paragraph(<<TextSpanPlain(<<"x">>)>>)>>

\* the number of digits line k starts with
C20_Digits(k) ==
    Cardinality({n \in 1..Len(C17_Line(k)) : \A j \in 1..n : C17_Line(k)[j] \in AsciiDigits})

\* line k is a list item: "* ", "- " or "+ " and text, or digits, '.' and text
C20_IsItem(k) ==
    \/ /\ Len(C17_Line(k)) >= 2
       /\ C17_Line(k)[1] \in {"*", "-", "+"}
       /\ C17_Line(k)[2] = " "
    \/ /\ C20_Digits(k) >= 1
       /\ Len(C17_Line(k)) > C20_Digits(k)
       /\ C17_Line(k)[C20_Digits(k) + 1] = "."

\* the text of the item on line k, after its marker
C20_ItemText(k) ==
    IF C20_Digits(k) >= 1
    THEN Trim(SubSeq(C17_Line(k), C20_Digits(k) + 2, Len(C17_Line(k))))
    ELSE Trim(SubSeq(C17_Line(k), 3, Len(C17_Line(k))))

\* no line of the input underlines the line before it
C20_NoUnderline ==
    \A k \in 1..Len(input.lines) : ~C17_AllOf(k, "=") /\ ~C17_AllOf(k, "-")

\* every list item of the input has its Paragraph of one unstyled span, the
\* item text after prefix
C20_ItemBlocks(prefix) ==
    (BlocksParsed /\ C20_NoUnderline) =>
        \A k \in 1..Len(input.lines) :
           C20_IsItem(k) =>
              \E i \in 1..Len(output.v) :
                 output.v[i] = Paragraph(<<TextSpanPlain(prefix \o C20_ItemText(k))>>)

\* C20: a list item yields a Paragraph block with a single unstyled span whose
\* text is the item text prefixed with "- ".
C20_ListItemDash == C20_ItemBlocks(<<"-", " ">>)

\* the line "- x" alone has given one Paragraph, its text the bullet U+2022, a
\* space and x
C20_Witness ==
    /\ BlocksParsed
    /\ input.lines = <<PlainLine(<<"-", " ", "x">>)>>
    /\ output.v = <<Paragraph(<<TextSpanPlain(<<Bullet, " ", "x">>)>>)>>

\* the blocks the scan of the input has yielded: those pushed in the loop and
\* by the flush after it
C21_Scanned ==
    LET st == ScanFrom(input.lines, ScanStart)
    IN  flush_paragraph_spans(st.paragraph_spans, st.blocks)

\* text with every run of whitespace made one space, read character by
\* character; a space may be left at the end
RECURSIVE C21_Collapse(_, _)
C21_Collapse(done, text) ==
    IF text = <<>> THEN done
    ELSE IF Head(text) \notin Whitespace
    THEN C21_Collapse(Append(done, Head(text)), Tail(text))
    ELSE IF done = <<>> \/ done[Len(done)] = " " THEN C21_Collapse(done, Tail(text))
    ELSE C21_Collapse(Append(done, " "), Tail(text))

\* the whole fragment's text, the lines one per line, collapsed and trimmed
C21_FragmentText ==
    LET RECURSIVE whole(_)
        whole(k) ==
            IF k > Len(input.lines) THEN <<>>
            ELSE IF k = Len(input.lines) THEN into_string(input.lines[k])
            ELSE into_string(input.lines[k]) \o <<"\n">> \o whole(k + 1)
    IN  Trim(C21_Collapse(<<>>, whole(1)))

\* C21: when the scan yields no block, the parser returns one Paragraph of one
\* unstyled span holding the whole fragment's text, whitespace runs collapsed
\* to single spaces and trimmed, if that text is not empty, and the empty list
\* if it is; when the scan yields a block, the result is what the scan yielded
\* and no fallback paragraph is added.
C21_ZeroBlockFallback ==
    BlocksParsed =>
        IF C21_Scanned = <<>>
        THEN IF C21_FragmentText # <<>>
             THEN output.v = <<Paragraph(<<TextSpanPlain(C21_FragmentText)>>)>>
             ELSE output.v = <<>>
        ELSE output.v = C21_Scanned

\* two lines of bold markers with an empty line between them give no span, so
\* the scan yields nothing; the fallback holds the markers, one space between
C21_Witness ==
    /\ BlocksParsed
    /\ input.lines = <<<<TaggedString(<<"*", "*">>, TRUE, FALSE)>>, <<>>,
                       <<TaggedString(<<"*", "*">>, TRUE, FALSE)>>>>
    /\ C21_Scanned = <<>>
    /\ output.v = <<Paragraph(<<TextSpanPlain(<<"*", "*", " ", "*", "*">>)>>)>>

----------------------------------------------------------------------------
(* The scan of blocks_from_tagged_lines step by step: the call, one action  *)
(* per iteration of the while loop, and the return.  While the loop runs,   *)
(* output holds its state and the number of iterations done.                *)

Scanning(st, iterations) == [tag |-> "Scanning", st |-> st, iterations |-> iterations]

IsScanning == output.tag = "Scanning"

\* let mut blocks, paragraph_spans, i
ScanCall ==
    /\ output = NotRun
    /\ output' = Scanning(ScanStart, 0)
    /\ UNCHANGED input
    /\ UNCHANGED readerVars

\* the loop test holds: one iteration
ScanIterate ==
    /\ IsScanning
    /\ output.st.i < Len(input.lines)
    /\ output' = Scanning(ScanLine(input.lines, output.st), output.iterations + 1)
    /\ UNCHANGED input
    /\ UNCHANGED readerVars

\* the loop test fails: the last flush, the fallback, and the return
ScanReturn ==
    /\ IsScanning
    /\ ~(output.st.i < Len(input.lines))
    /\ output' = Returned(ScanFinish(input.lines, output.st))
    /\ UNCHANGED input
    /\ UNCHANGED readerVars

NextScan == ScanCall \/ ScanIterate \/ ScanReturn

\* the lines of the scanned inputs: a blank line, a text line, the two
\* underlines, a hash heading and a list item
ScanLines ==
    { PlainLine(<<" ">>),
      PlainLine(<<"x">>),
      PlainLine(<<"=", "=">>),
      PlainLine(<<"-">>),
      PlainLine(<<"#", " ", "T">>),
      PlainLine(<<"-", " ", "x">>) }

ScanInputs == [fn : {"blocks_from_tagged_lines"}, lines : SeqsUpTo(ScanLines, MaxLines)]

InitScan ==
    /\ ReaderIdle
    /\ input \in ScanInputs
    /\ output = NotRun

SpecScan == InitScan /\ [][NextScan]_vars

\* the code runs on: a step that can be taken is taken
SpecScanFair == SpecScan /\ WF_vars(NextScan)

(* Claims about the scan, checked under SpecScanFair *)

\* the scan position is within the lines, and every iteration done has moved
\* it on by one line at least
C22_Bounded ==
    IsScanning =>
        /\ output.st.i <= Len(input.lines)
        /\ output.iterations <= output.st.i

\* an iteration moves the position on by one line, or by two when the line is
\* made a heading by the underline after it; the return is from the end of the
\* lines and hands back a list
C22_Step ==
    /\ (IsScanning /\ output'.tag = "Scanning") =>
          /\ output'.iterations = output.iterations + 1
          /\ output'.st.i - output.st.i \in {1, 2}
          /\ output'.st.i - output.st.i = 2 <=>
                /\ C17_Line(output.st.i + 1) # <<>>
                /\ C17_AllOf(output.st.i + 2, "=") \/ C17_AllOf(output.st.i + 2, "-")
    /\ (IsScanning /\ output'.tag = "Returned") =>
          /\ output.st.i = Len(input.lines)
          /\ output.iterations <= Len(input.lines)
          /\ DOMAIN output'.v = 1..Len(output'.v)

\* C22: the block parser always terminates and never fails: each iteration of
\* the loop advances the scan position by at least one line (one, or two when
\* a heading consumes its underline), the position never passes the end of the
\* lines, so the loop ends after at most as many iterations as there are lines,
\* and a block list (possibly empty) is returned.
C22_Terminates ==
    /\ []C22_Bounded
    /\ [][C22_Step]_vars
    /\ <>HasReturned(output)

\* three lines, the second underlining the first: the loop is at the end of
\* the lines after two iterations, a heading and no paragraph behind it
C22_Witness ==
    /\ IsScanning
    /\ input.lines = <<PlainLine(<<"x">>), PlainLine(<<"=", "=">>), PlainLine(<<" ">>)>>
    /\ output.st.i = 3
    /\ output.iterations = 2
    /\ output.st.blocks = <<Heading(1, <<TextSpanPlain(<<"x">>)>>)>>

----------------------------------------------------------------------------
(* The block parser over lines of styled text: each line is a sequence of   *)
(* tagged strings as html2text renders an inline run.                       *)

\* "Hello **world** and *friends*." as rendered from
\* <p>Hello <strong>world</strong> and <em>friends</em>.</p>
HelloLine ==
    << TaggedString(<<"H", "e", "l", "l", "o", " ">>, FALSE, FALSE),
       TaggedString(<<"*", "*", "w", "o", "r", "l", "d", "*", "*">>, TRUE, FALSE),
       TaggedString(<<" ", "a", "n", "d", " ">>, FALSE, FALSE),
       TaggedString(<<"*", "f", "r", "i", "e", "n", "d", "s", "*">>, FALSE, TRUE),
       TaggedString(<<".">>, FALSE, FALSE) >>

SpanLines ==
    { <<>>,
      HelloLine,
      PlainLine(<<"x">>),
      <<TaggedString(<<"x", " ">>, FALSE, FALSE), TaggedString(<<"y">>, FALSE, FALSE)>>,
      <<TaggedString(<<"*", "*", "b", "*", "*">>, TRUE, FALSE)>>,
      <<TaggedString(<<"*", "*", "b", "*", "*">>, TRUE, FALSE),
        TaggedString(<<"*", "i", "*">>, FALSE, TRUE)>>,
      <<TaggedString(<<"*", "*", "*", "s", "*", "*", "*">>, TRUE, TRUE)>> }

SpanInputs == [fn : {"blocks_from_tagged_lines"}, lines : SeqsUpTo(SpanLines, MaxLines)]

InitSpans ==
    /\ ReaderIdle
    /\ input \in SpanInputs
    /\ output = NotRun

SpecSpans == InitSpans /\ [][NextBlocks]_vars

(* Claims about span merging, checked under SpecSpans *)

\* the flag pairs of the spans, in order
C23_Flags(spans) == [j \in 1..Len(spans) |-> <<spans[j].bold, spans[j].italic>>]

\* a sequence with every run of equal neighbours reduced to one element
RECURSIVE C23_Runs(_)
C23_Runs(seq) ==
    IF Len(seq) <= 1 THEN seq
    ELSE IF seq[1] = seq[2] THEN C23_Runs(Tail(seq))
    ELSE <<seq[1]>> \o C23_Runs(Tail(seq))

\* the characters of the spans in order, spaces left out
RECURSIVE C23_Letters(_)
C23_Letters(spans) ==
    IF spans = <<>> THEN <<>>
    ELSE SelectSeq(Head(spans).text, LAMBDA c : c # " ") \o C23_Letters(Tail(spans))

\* the spans of the source, one sequence for each run of consecutive
\* non-blank lines
RECURSIVE C23_GroupsFrom(_, _, _)
C23_GroupsFrom(lines, cur, done) ==
    LET closed == IF cur = <<>> THEN done ELSE Append(done, cur)
    IN  IF lines = <<>> THEN closed
        ELSE IF Trim(into_string(Head(lines))) = <<>>
        THEN C23_GroupsFrom(Tail(lines), <<>>, closed)
        ELSE C23_GroupsFrom(Tail(lines), cur \o spans_from_line(Head(lines)), done)

C23_Groups == C23_GroupsFrom(input.lines, <<>>, <<>>)

\* every line is blank or a text line: no heading, no underline, no list item
C23_TextLines ==
    \A k \in 1..Len(input.lines) :
        /\ parse_hash_heading(C17_Line(k)) = None
        /\ parse_list_item(C17_Line(k)) = None
        /\ underline_heading_level(Some(C17_Line(k))) = None

\* C23: in every Paragraph block no two neighbouring spans carry the same
\* (bold, italic) pair; a paragraph built from consecutive non-blank text lines
\* holds the spans of its lines in source order, neighbours of equal flags
\* merged into one and a change of style starting a new span; Hello, bold
\* world, and, italic friends, "." give five spans plain, bold, plain, italic,
\* plain.
C23_SpanMerging ==
    BlocksParsed =>
        /\ \A b \in 1..Len(output.v) :
              output.v[b].kind = "Paragraph" =>
                  \A j \in 1..(Len(output.v[b].spans) - 1) :
                      C23_Flags(output.v[b].spans)[j] # C23_Flags(output.v[b].spans)[j + 1]
        /\ C23_TextLines =>
              /\ Len(output.v) = Len(C23_Groups)
              /\ \A g \in 1..Len(C23_Groups) :
                    /\ output.v[g].kind = "Paragraph"
                    /\ C23_Flags(output.v[g].spans) = C23_Runs(C23_Flags(C23_Groups[g]))
                    /\ C23_Letters(output.v[g].spans) = C23_Letters(C23_Groups[g])
        /\ input.lines = <<HelloLine>> =>
              output.v = <<Paragraph(<<TextSpanPlain(<<"H", "e", "l", "l", "o">>),
                                       TextSpan(<<"w", "o", "r", "l", "d">>, TRUE, FALSE),
                                       TextSpanPlain(<<"a", "n", "d">>),
                                       TextSpan(<<"f", "r", "i", "e", "n", "d", "s">>, FALSE, TRUE),
                                       TextSpanPlain(<<".">>)>>)>>

\* two plain strings on a line and a plain line after it are merged into one
\* span, the bold line after them starts the second span of the paragraph
C23_Witness ==
    /\ BlocksParsed
    /\ input.lines = <<<<TaggedString(<<"x", " ">>, FALSE, FALSE),
                         TaggedString(<<"y">>, FALSE, FALSE)>>,
                       PlainLine(<<"x">>),
                       <<TaggedString(<<"*", "*", "b", "*", "*">>, TRUE, FALSE)>>>>
    /\ output.v = <<Paragraph(<<TextSpanPlain(<<"x", " ", "y", " ", "x", " ">>),
                                TextSpan(<<"b">>, TRUE, FALSE)>>)>>

----------------------------------------------------------------------------
(* Claims about the cursor of the reader state, checked under Spec *)

\* C24: in every state reached from the default reader state by
\* set_active_book, next_chapter, previous_chapter and jump_to_chapter_href,
\* the cursor is None exactly when there is no active book or the active book
\* has no chapters, and otherwise it is an index i with 0 <= i < chapter_count;
\* so current_chapter() and current_chapter_href() return a value whenever the
\* cursor is not None.
C24_CursorValid ==
    /\ (current_chapter = None) <=> (active_book = None \/ chapter_count = 0)
    /\ IsSome(current_chapter) =>
          /\ current_chapter.v >= 0
          /\ current_chapter.v < chapter_count
          /\ IsSome(current_chapter_fn)
          /\ current_chapter_fn.v[2] = current_chapter.v
          /\ IsSome(current_chapter_href)

\* next_chapter has moved the cursor onto the last of three chapters
C24_Witness ==
    /\ op = "next_chapter"
    /\ ret = TRUE
    /\ chapter_count = 3
    /\ current_chapter = Some(2)
    /\ IsSome(current_chapter_href)

----------------------------------------------------------------------------
(* ReaderView (src/ui/mod.rs): the chapter controls, the shortcut handlers  *)
(* and the rows of the table of contents over the reader state.             *)

\* fault: the test of the Next button is index < total
HasNextOffByOne ==
    IF IsSome(current_chapter_fn) THEN current_chapter_fn.v[2] < chapter_count ELSE FALSE

\* chapter_controls: Some((_, index)) => index > 0, None => false
has_prev ==
    IF IsSome(current_chapter_fn) THEN current_chapter_fn.v[2] > 0 ELSE FALSE

\* chapter_controls: Some((_, index)) => index + 1 < total, None => false
has_next ==
    IF IsSome(current_chapter_fn) THEN current_chapter_fn.v[2] + 1 < chapter_count ELSE FALSE

\* nav_button attaches on_click only to an enabled button
ClickPrevious == has_prev /\ previous_chapter

ClickNext == has_next /\ next_chapter

\* the left and right keys
handle_prev_action == previous_chapter

handle_next_action == next_chapter

\* a row of the table of contents, rendered for an active book
ClickTocEntry(href) == IsSome(active_book) /\ jump_to_chapter_href(href)

\* the view is created over the state ReaderApp hands to run
NextUi ==
    \/ \E book \in ReaderBooks : op = "default" /\ set_active_book(book)
    \/ ClickPrevious
    \/ ClickNext
    \/ handle_prev_action
    \/ handle_next_action
    \/ \E href \in ReaderHrefs : ClickTocEntry(href)

SpecUi == Init /\ [][NextUi]_vars

(* Claims about the chapter controls, checked under SpecUi *)

C25_Enabled ==
    /\ has_prev = PreviousResult(current_chapter)[1]
    /\ has_next = NextResult(current_chapter, chapter_count)[1]
    /\ current_chapter_fn = None => ~has_prev /\ ~has_next

C25_Click ==
    /\ op' = "previous_chapter" =>
          /\ ret' = has_prev
          /\ has_prev <=> current_chapter' # current_chapter
    /\ op' = "next_chapter" =>
          /\ ret' = has_next
          /\ has_next <=> current_chapter' # current_chapter

\* C25: in every reachable reader state the Previous button is enabled exactly
\* when previous_chapter would return true and the Next button exactly when
\* next_chapter would return true; a call made where the button is enabled
\* moves the cursor, one made where it is disabled changes nothing; with no
\* current chapter both buttons are disabled.
C25_ControlsAgree == []C25_Enabled /\ [][C25_Click]_vars

\* Next has been used to reach the last of two chapters: Previous is enabled
\* and Next is disabled
C25_Witness ==
    /\ op = "next_chapter"
    /\ ret = TRUE
    /\ chapter_count = 2
    /\ current_chapter = Some(1)
    /\ has_prev
    /\ ~has_next

====
